---- MODULE Spec2Model ----
(***************************************************************************)
(* AG-UI WASM SDK (rust-sdk/ag-ui-wasm): the event model, the SSE encoder  *)
(* and the two decoding paths of EventStream, modelled at byte level.      *)
(*                                                                         *)
(* Bytes are one-character strings for ASCII and the tokens "xC3", "xA9"   *)
(* for the two bytes of U+00E9.  Decoded text is a sequence of characters: *)
(* ASCII characters, "U+E9" and the replacement character "U+FFFD".        *)
(***************************************************************************)
EXTENDS Integers, Sequences, FiniteSets, TLC

VARIABLES
    rt,         \* codec: last (event, json text, decode result) triple, <<>> before
    todo,       \* producer: the items it still has to write, in order
    written,    \* producer: the items written so far, in order
    wire,       \* transport: bytes written and not yet read
    source,     \* transport: "open" or "closed" (the producer closed the stream)
    consumer,   \* which decoding path is attached: "next_event" or "transform"
    last,       \* consumer: <<return value>> of the latest next_event call, <<>> before
    delivered,  \* consumer: the events next_event returned so far, in order
    errors,     \* consumer: how many next_event calls returned Err so far
    eof,        \* consumer: reader.read() has reported done
    enqueued,   \* consumer: events the transform closure enqueued so far
    transformRet, \* consumer: what the last call of the transform closure returned
    producers,  \* shared encoder: per producer, the encode calls it still has to make
    calls,      \* shared encoder: the completed calls with their results, in order
    agent,      \* client: the WebAgent constructed, <<>> when there is none
    worker      \* example worker: the request being served, <<>> when there is none

vars ==
    <<rt, todo, written, wire, source, consumer, last, delivered, errors, eof,
      enqueued, transformRet, producers, calls, agent, worker>>

streamVars ==
    <<todo, written, wire, source, consumer, last, delivered, errors, eof,
      enqueued, transformRet>>

\* what the stream and the codec never touch
restVars == <<producers, calls, agent, worker>>

(***************************************************************************)
(* Text helpers                                                            *)
(***************************************************************************)
Chars(s) == [i \in 1..Len(s) |-> SubSeq(s, i, i)]

LF == "\n"

DQ == "\""

BSL == "\\"

Drop(s, n) == SubSeq(s, n + 1, Len(s))

StartsWith(s, p) == Len(s) >= Len(p) /\ SubSeq(s, 1, Len(p)) = p

\* the concatenation of a sequence of sequences (by halves, to keep the
\* evaluation depth logarithmic)
RECURSIVE Flatten(_)
Flatten(ss) ==
    IF Len(ss) = 0 THEN <<>>
    ELSE IF Len(ss) = 1 THEN ss[1]
    ELSE LET h == Len(ss) \div 2
         IN Flatten(SubSeq(ss, 1, h)) \o Flatten(SubSeq(ss, h + 1, Len(ss)))

(***************************************************************************)
(* UTF-8: String::as_bytes / TextEncoder and TextDecoder.decode()          *)
(***************************************************************************)
Utf8Encode(text) ==
    Flatten([i \in 1..Len(text) |->
                IF text[i] = "U+E9" THEN <<"xC3", "xA9">> ELSE <<text[i]>>])

\* TextDecoder::new() is utf-8, non-fatal; decode_with_u8_array is called
\* without the stream option, so every call decodes its chunk on its own and
\* an incomplete sequence becomes U+FFFD.
\* A lead byte followed by its continuation byte is one character; a lead
\* byte without continuation and a continuation byte without lead are U+FFFD.
TextDecode(bytes) ==
    LET n == Len(bytes)
        Continues(i) == i > 1 /\ bytes[i] = "xA9" /\ bytes[i - 1] = "xC3"
        starts == SelectSeq([i \in 1..n |-> i], LAMBDA i : ~Continues(i))
        CharAt(i) ==
            IF bytes[i] = "xC3"
            THEN IF i < n /\ bytes[i + 1] = "xA9" THEN "U+E9" ELSE "U+FFFD"
            ELSE IF bytes[i] = "xA9" THEN "U+FFFD" ELSE bytes[i]
    IN [k \in 1..Len(starts) |-> CharAt(starts[k])]

(***************************************************************************)
(* JSON values (serde_json::Value), restricted to null, strings, arrays    *)
(* and objects.  An object is its member list in document order.           *)
(***************************************************************************)
JNull == [t |-> "null"]

JStr(s) == [t |-> "str", s |-> s]

JArr(items) == [t |-> "arr", items |-> items]

JObj(members) == [t |-> "obj", members |-> members]

\* Option<T>: <<>> is None, <<x>> is Some(x)
None == <<>>

Some(x) == <<x>>

IsSome(o) == o # <<>>

\* mutation of EscapeStr: a line break is written as it is
EscapeStr_raw_newline(s) ==
    Flatten([i \in 1..Len(s) |->
                CASE s[i] = DQ  -> <<BSL, DQ>>
                  [] s[i] = BSL -> <<BSL, BSL>>
                  [] OTHER      -> <<s[i]>>])

\* serde_json string escaping (format_escaped_str)
EscapeStr(s) ==
    Flatten([i \in 1..Len(s) |->
                CASE s[i] = DQ  -> <<BSL, DQ>>
                  [] s[i] = BSL -> <<BSL, BSL>>
                  [] s[i] = LF  -> <<BSL, "n">>
                  [] OTHER      -> <<s[i]>>])

WriteStr(s) == <<DQ>> \o EscapeStr(s) \o <<DQ>>

\* serde_json::to_string on a value: compact, no whitespace, no newline
RECURSIVE WriteJson(_)
RECURSIVE WriteItems(_)
RECURSIVE WriteMembers(_)
WriteJson(v) ==
    CASE v.t = "null" -> Chars("null")
      [] v.t = "str"  -> WriteStr(v.s)
      [] v.t = "arr"  -> <<"[">> \o WriteItems(v.items) \o <<"]">>
      [] v.t = "obj"  -> <<"{">> \o WriteMembers(v.members) \o <<"}">>

WriteItems(items) ==
    IF items = <<>> THEN <<>>
    ELSE WriteJson(Head(items))
         \o (IF Len(items) > 1 THEN <<",">> ELSE <<>>)
         \o WriteItems(Tail(items))

WriteMembers(ms) ==
    IF ms = <<>> THEN <<>>
    ELSE WriteStr(Head(ms)[1]) \o <<":">> \o WriteJson(Head(ms)[2])
         \o (IF Len(ms) > 1 THEN <<",">> ELSE <<>>)
         \o WriteMembers(Tail(ms))

(***************************************************************************)
(* JSON parser (serde_json::from_str): recursive descent over the text.    *)
(* A parse result is [ok, v, next]; next is the index after the value.     *)
(***************************************************************************)
ParseFail == [ok |-> FALSE, v |-> JNull, next |-> 0]

ParseOk(v, next) == [ok |-> TRUE, v |-> v, next |-> next]

IsWs(c) == c \in {" ", LF, "\t", "\r"}

RECURSIVE SkipWs(_, _)
SkipWs(s, i) == IF i <= Len(s) /\ IsWs(s[i]) THEN SkipWs(s, i + 1) ELSE i

\* the characters of a string literal, i being the index after the opening
\* quote; the characters up to the next quote, backslash or line break are
\* taken over in one piece
RECURSIVE ParseStrBody(_, _, _)
ParseStrBody(s, i, acc) ==
    LET marks == {k \in i..Len(s) : s[k] \in {DQ, BSL, LF}} IN
    IF marks = {} THEN ParseFail
    ELSE LET k   == CHOOSE m \in marks : \A o \in marks : m <= o
             run == acc \o SubSeq(s, i, k - 1)
         IN IF s[k] = DQ THEN ParseOk(JStr(run), k + 1)
            ELSE IF s[k] = LF THEN ParseFail
            ELSE IF k + 1 > Len(s) THEN ParseFail
            ELSE CASE s[k + 1] = DQ  -> ParseStrBody(s, k + 2, Append(run, DQ))
                   [] s[k + 1] = BSL -> ParseStrBody(s, k + 2, Append(run, BSL))
                   [] s[k + 1] = "n" -> ParseStrBody(s, k + 2, Append(run, LF))
                   [] OTHER          -> ParseFail

RECURSIVE ParseValue(_, _)
RECURSIVE ParseItems(_, _, _)
RECURSIVE ParseMembers(_, _, _)
\* mutation of ParseItems: each item is put in front of the ones before it
ParseItems_prepend(s, i, acc) ==
    LET r == ParseValue(s, i) IN
    IF ~r.ok THEN ParseFail
    ELSE LET k == SkipWs(s, r.next) IN
         IF k > Len(s) THEN ParseFail
         ELSE IF s[k] = "]" THEN ParseOk(JArr(<<r.v>> \o acc), k + 1)
         ELSE IF s[k] = "," THEN ParseItems(s, k + 1, <<r.v>> \o acc)
         ELSE ParseFail

ParseValue(s, i) ==
    LET j == SkipWs(s, i) IN
    IF j > Len(s) THEN ParseFail
    ELSE CASE s[j] = DQ  -> ParseStrBody(s, j + 1, <<>>)
           [] s[j] = "{" ->
                LET k == SkipWs(s, j + 1) IN
                IF k <= Len(s) /\ s[k] = "}" THEN ParseOk(JObj(<<>>), k + 1)
                ELSE ParseMembers(s, k, <<>>)
           [] s[j] = "[" ->
                LET k == SkipWs(s, j + 1) IN
                IF k <= Len(s) /\ s[k] = "]" THEN ParseOk(JArr(<<>>), k + 1)
                ELSE ParseItems(s, k, <<>>)
           [] s[j] = "n" ->
                IF j + 3 <= Len(s) /\ SubSeq(s, j, j + 3) = Chars("null")
                THEN ParseOk(JNull, j + 4) ELSE ParseFail
           [] OTHER -> ParseFail

\* i is the index where the next array item starts
ParseItems(s, i, acc) ==
    LET r == ParseValue(s, i) IN
    IF ~r.ok THEN ParseFail
    ELSE LET k == SkipWs(s, r.next) IN
         IF k > Len(s) THEN ParseFail
         ELSE IF s[k] = "]" THEN ParseOk(JArr(Append(acc, r.v)), k + 1)
         ELSE IF s[k] = "," THEN ParseItems(s, k + 1, Append(acc, r.v))
         ELSE ParseFail

\* i is the index where the next member's key starts
ParseMembers(s, i, acc) ==
    LET j == SkipWs(s, i) IN
    IF j > Len(s) \/ s[j] # DQ THEN ParseFail
    ELSE LET key == ParseStrBody(s, j + 1, <<>>) IN
         IF ~key.ok THEN ParseFail
         ELSE LET c == SkipWs(s, key.next) IN
              IF c > Len(s) \/ s[c] # ":" THEN ParseFail
              ELSE LET r == ParseValue(s, c + 1) IN
                   IF ~r.ok THEN ParseFail
                   ELSE LET k  == SkipWs(s, r.next)
                            ms == Append(acc, <<key.v.s, r.v>>)
                        IN IF k > Len(s) THEN ParseFail
                           ELSE IF s[k] = "}" THEN ParseOk(JObj(ms), k + 1)
                           ELSE IF s[k] = "," THEN ParseMembers(s, k + 1, ms)
                           ELSE ParseFail

\* a whole document: one value, then nothing but whitespace (Deserializer::end)
ParseDocument(s) ==
    LET r == ParseValue(s, 1) IN
    IF r.ok /\ SkipWs(s, r.next) > Len(s) THEN r ELSE ParseFail

(***************************************************************************)
(* Event model: core/events.rs and core/types.rs                           *)
(***************************************************************************)
\* EventType with rename_all = "SCREAMING_SNAKE_CASE": variant |-> wire name
EventType ==
    [RunStarted         |-> "RUN_STARTED",
     RunFinished        |-> "RUN_FINISHED",
     RunAborted         |-> "RUN_ABORTED",
     TextMessageStart   |-> "TEXT_MESSAGE_START",
     TextMessageContent |-> "TEXT_MESSAGE_CONTENT",
     TextMessageChunk   |-> "TEXT_MESSAGE_CHUNK",
     TextMessageEnd     |-> "TEXT_MESSAGE_END",
     MessagesSnapshot   |-> "MESSAGES_SNAPSHOT",
     ToolCallStart      |-> "TOOL_CALL_START",
     ToolCallChunk      |-> "TOOL_CALL_CHUNK",
     ToolCallEnd        |-> "TOOL_CALL_END",
     ToolCallResult     |-> "TOOL_CALL_RESULT",
     StateSnapshot      |-> "STATE_SNAPSHOT",
     StateDelta         |-> "STATE_DELTA",
     Error              |-> "ERROR"]

\* Role with rename_all = "lowercase"
Role ==
    [Developer |-> "developer",
     User      |-> "user",
     Assistant |-> "assistant",
     System    |-> "system",
     Tool      |-> "tool"]

\* DateTime<Utc> values of the model: n seconds after 2024-01-01T00:00:00Z,
\* n in 0..9; chrono writes them in RFC 3339 form with a Z suffix.
DigitChars == Chars("0123456789")

TimestampPrefix == Chars("2024-01-01T00:00:0")

\* mutation of FormatTimestamp: the zone designator is left out
FormatTimestamp_no_zone(n) == TimestampPrefix \o <<DigitChars[n + 1]>>

FormatTimestamp(n) == TimestampPrefix \o <<DigitChars[n + 1]>> \o <<"Z">>

ParseTimestamp(s) ==
    IF /\ Len(s) = Len(TimestampPrefix) + 2
       /\ StartsWith(s, TimestampPrefix)
       /\ s[Len(s)] = "Z"
       /\ \E n \in 0..9 : s[Len(s) - 1] = DigitChars[n + 1]
    THEN Some(CHOOSE n \in 0..9 : s[Len(s) - 1] = DigitChars[n + 1])
    ELSE None

\* ---- Serialize -----------------------------------------------------------
Field(name, v) == << <<Chars(name), v>> >>

\* mutation of OptStrField: without skip_serializing_if, None is written as null
OptStrField_null(name, o) ==
    IF IsSome(o) THEN Field(name, JStr(o[1])) ELSE Field(name, JNull)

\* #[serde(skip_serializing_if = "Option::is_none")] on Option<String>
OptStrField(name, o) == IF IsSome(o) THEN Field(name, JStr(o[1])) ELSE <<>>

\* the same on Option<serde_json::Value>
OptValField(name, o) == IF IsSome(o) THEN Field(name, o[1]) ELSE <<>>

SerializeToolCall(tc) ==
    JObj(Field("id", JStr(tc.id)) \o Field("name", JStr(tc.name))
         \o OptValField("arguments", tc.arguments))

SerializeToolResult(tr) ==
    JObj(Field("tool_call_id", JStr(tr.tool_call_id)) \o Field("result", tr.result)
         \o OptStrField("error", tr.error))

\* Message: id, role, content and the optionals name and tool_call_id; the
\* remaining optionals (tool_calls, function_call, metadata, created_at) are
\* None in every modelled message and are therefore never written.
SerializeMessage(m) ==
    JObj(Field("id", JStr(m.id)) \o Field("role", JStr(Chars(Role[m.role])))
         \o Field("content", JStr(m.content))
         \o OptStrField("name", m.name)
         \o OptStrField("tool_call_id", m.tool_call_id))

SerializeMessages(ms) == JArr([i \in 1..Len(ms) |-> SerializeMessage(ms[i])])

\* EventData is #[serde(untagged)]: only the fields of the variant are written
SerializeEventData(d) ==
    CASE d.variant \in {"RunStarted", "RunFinished"} ->
            Field("thread_id", JStr(d.thread_id)) \o Field("run_id", JStr(d.run_id))
      [] d.variant = "RunAborted" ->
            Field("thread_id", JStr(d.thread_id)) \o Field("run_id", JStr(d.run_id))
            \o OptStrField("reason", d.reason)
      [] d.variant = "TextMessageStart" ->
            Field("message_id", JStr(d.message_id))
            \o (IF IsSome(d.role) THEN Field("role", JStr(Chars(Role[d.role[1]]))) ELSE <<>>)
      [] d.variant \in {"TextMessageContent", "TextMessageChunk"} ->
            Field("message_id", JStr(d.message_id)) \o Field("delta", JStr(d.delta))
      [] d.variant = "TextMessageEnd" ->
            Field("message_id", JStr(d.message_id))
      [] d.variant = "MessagesSnapshot" ->
            Field("messages", SerializeMessages(d.messages))
      [] d.variant = "ToolCallStart" ->
            Field("tool_call_id", JStr(d.tool_call_id)) \o Field("tool_name", JStr(d.tool_name))
            \o OptStrField("parent_message_id", d.parent_message_id)
      [] d.variant = "ToolCallChunk" ->
            Field("tool_call_id", JStr(d.tool_call_id)) \o Field("delta", JStr(d.delta))
      [] d.variant = "ToolCallEnd" ->
            Field("tool_call_id", JStr(d.tool_call_id))
            \o (IF IsSome(d.tool_call)
                THEN Field("tool_call", SerializeToolCall(d.tool_call[1])) ELSE <<>>)
      [] d.variant = "ToolCallResult" ->
            Field("tool_result", SerializeToolResult(d.tool_result))
      [] d.variant = "StateSnapshot" ->
            Field("state", JObj(d.state))
      [] d.variant = "StateDelta" ->
            Field("delta", d.delta)
      [] d.variant = "Error" ->
            Field("error", JStr(d.error)) \o OptStrField("code", d.code)
            \o OptValField("details", d.details)

\* mutation of SerializeBaseEvent: without #[serde(flatten)] the payload is
\* nested under the field name `data`
SerializeBaseEvent_nested(e) ==
    JObj(Field("type", JStr(Chars(EventType[e.event_type])))
         \o (IF IsSome(e.timestamp)
             THEN Field("timestamp", JStr(FormatTimestamp(e.timestamp[1]))) ELSE <<>>)
         \o OptValField("raw_event", e.raw_event)
         \o Field("data", JObj(SerializeEventData(e.data))))

\* BaseEvent: type, then the optional envelope fields, then the flattened data
SerializeBaseEvent(e) ==
    JObj(Field("type", JStr(Chars(EventType[e.event_type])))
         \o (IF IsSome(e.timestamp)
             THEN Field("timestamp", JStr(FormatTimestamp(e.timestamp[1]))) ELSE <<>>)
         \o OptValField("raw_event", e.raw_event)
         \o SerializeEventData(e.data))

\* serde_json::to_string(&event)
to_string(e) == WriteJson(SerializeBaseEvent(e))

\* ---- Deserialize ---------------------------------------------------------
\* the first member named key, as an Option
RECURSIVE Find(_, _)
Find(ms, key) ==
    IF ms = <<>> THEN None
    ELSE IF Head(ms)[1] = key THEN Some(Head(ms)[2]) ELSE Find(Tail(ms), key)

\* the members whose key is not in keys, in order
RECURSIVE Without(_, _)
Without(ms, keys) ==
    IF ms = <<>> THEN <<>>
    ELSE (IF Head(ms)[1] \in keys THEN <<>> ELSE <<Head(ms)>>) \o Without(Tail(ms), keys)

\* A field deserializer returns <<>> when the field makes the struct fail and
\* <<x>> when it yields x.
\* String: the key must be present and hold a string
ReqStr(ms, name) ==
    LET f == Find(ms, Chars(name)) IN
    IF IsSome(f) /\ f[1].t = "str" THEN <<f[1].s>> ELSE <<>>

\* serde_json::Value: the key must be present, any value (null included)
ReqVal(ms, name) == Find(ms, Chars(name))

\* Option<String>: absent or null is None, a string is Some, the rest fails
OptStr(ms, name) ==
    LET f == Find(ms, Chars(name)) IN
    IF ~IsSome(f) \/ f[1].t = "null" THEN <<None>>
    ELSE IF f[1].t = "str" THEN <<Some(f[1].s)>> ELSE <<>>

\* Option<serde_json::Value>: absent or null is None, anything else is Some
OptVal(ms, name) ==
    LET f == Find(ms, Chars(name)) IN
    IF ~IsSome(f) \/ f[1].t = "null" THEN <<None>> ELSE <<Some(f[1])>>

\* Role: one of the five lowercase names
DeserializeRole(v) ==
    IF v.t = "str" /\ \E r \in DOMAIN Role : Chars(Role[r]) = v.s
    THEN <<CHOOSE r \in DOMAIN Role : Chars(Role[r]) = v.s>>
    ELSE <<>>

\* Option<Role>
OptRole(ms, name) ==
    LET f == Find(ms, Chars(name)) IN
    IF ~IsSome(f) \/ f[1].t = "null" THEN <<None>>
    ELSE LET r == DeserializeRole(f[1]) IN IF IsSome(r) THEN <<Some(r[1])>> ELSE <<>>

DeserializeToolCall(v) ==
    IF v.t # "obj" THEN <<>>
    ELSE LET id == ReqStr(v.members, "id")
             nm == ReqStr(v.members, "name")
             ar == OptVal(v.members, "arguments")
         IN IF IsSome(id) /\ IsSome(nm) /\ IsSome(ar)
            THEN <<[id |-> id[1], name |-> nm[1], arguments |-> ar[1]]>>
            ELSE <<>>

DeserializeToolResult(v) ==
    IF v.t # "obj" THEN <<>>
    ELSE LET id == ReqStr(v.members, "tool_call_id")
             rs == ReqVal(v.members, "result")
             er == OptStr(v.members, "error")
         IN IF IsSome(id) /\ IsSome(rs) /\ IsSome(er)
            THEN <<[tool_call_id |-> id[1], result |-> rs[1], error |-> er[1]]>>
            ELSE <<>>

DeserializeMessage(v) ==
    IF v.t # "obj" THEN <<>>
    ELSE LET id == ReqStr(v.members, "id")
             rf == Find(v.members, Chars("role"))
             ro == IF IsSome(rf) THEN DeserializeRole(rf[1]) ELSE <<>>
             ct == ReqStr(v.members, "content")
             nm == OptStr(v.members, "name")
             tc == OptStr(v.members, "tool_call_id")
         IN IF IsSome(id) /\ IsSome(ro) /\ IsSome(ct) /\ IsSome(nm) /\ IsSome(tc)
            THEN <<[id |-> id[1], role |-> ro[1], content |-> ct[1],
                    name |-> nm[1], tool_call_id |-> tc[1]]>>
            ELSE <<>>

\* Vec<Message>
DeserializeMessages(v) ==
    IF v.t # "arr" THEN <<>>
    ELSE IF \A i \in 1..Len(v.items) : IsSome(DeserializeMessage(v.items[i]))
         THEN <<[i \in 1..Len(v.items) |-> DeserializeMessage(v.items[i])[1]]>>
         ELSE <<>>

\* One attempt per variant of EventData; ms are the members left over after
\* the envelope fields.  Unknown members are ignored (no deny_unknown_fields).
TryVariant(variant, ms) ==
    CASE variant \in {"RunStarted", "RunFinished"} ->
            LET t == ReqStr(ms, "thread_id")
                r == ReqStr(ms, "run_id")
            IN IF IsSome(t) /\ IsSome(r)
               THEN <<[variant |-> variant, thread_id |-> t[1], run_id |-> r[1]]>>
               ELSE <<>>
      [] variant = "RunAborted" ->
            LET t == ReqStr(ms, "thread_id")
                r == ReqStr(ms, "run_id")
                w == OptStr(ms, "reason")
            IN IF IsSome(t) /\ IsSome(r) /\ IsSome(w)
               THEN <<[variant |-> variant, thread_id |-> t[1], run_id |-> r[1],
                       reason |-> w[1]]>>
               ELSE <<>>
      [] variant = "TextMessageStart" ->
            LET m == ReqStr(ms, "message_id")
                r == OptRole(ms, "role")
            IN IF IsSome(m) /\ IsSome(r)
               THEN <<[variant |-> variant, message_id |-> m[1], role |-> r[1]]>>
               ELSE <<>>
      [] variant \in {"TextMessageContent", "TextMessageChunk"} ->
            LET m == ReqStr(ms, "message_id")
                d == ReqStr(ms, "delta")
            IN IF IsSome(m) /\ IsSome(d)
               THEN <<[variant |-> variant, message_id |-> m[1], delta |-> d[1]]>>
               ELSE <<>>
      [] variant = "TextMessageEnd" ->
            LET m == ReqStr(ms, "message_id")
            IN IF IsSome(m) THEN <<[variant |-> variant, message_id |-> m[1]]>> ELSE <<>>
      [] variant = "MessagesSnapshot" ->
            LET f == Find(ms, Chars("messages"))
                l == IF IsSome(f) THEN DeserializeMessages(f[1]) ELSE <<>>
            IN IF IsSome(l) THEN <<[variant |-> variant, messages |-> l[1]]>> ELSE <<>>
      [] variant = "ToolCallStart" ->
            LET c == ReqStr(ms, "tool_call_id")
                n == ReqStr(ms, "tool_name")
                p == OptStr(ms, "parent_message_id")
            IN IF IsSome(c) /\ IsSome(n) /\ IsSome(p)
               THEN <<[variant |-> variant, tool_call_id |-> c[1], tool_name |-> n[1],
                       parent_message_id |-> p[1]]>>
               ELSE <<>>
      [] variant = "ToolCallChunk" ->
            LET c == ReqStr(ms, "tool_call_id")
                d == ReqStr(ms, "delta")
            IN IF IsSome(c) /\ IsSome(d)
               THEN <<[variant |-> variant, tool_call_id |-> c[1], delta |-> d[1]]>>
               ELSE <<>>
      [] variant = "ToolCallEnd" ->
            LET c == ReqStr(ms, "tool_call_id")
                f == Find(ms, Chars("tool_call"))
                t == IF ~IsSome(f) \/ f[1].t = "null" THEN <<None>>
                     ELSE LET x == DeserializeToolCall(f[1])
                          IN IF IsSome(x) THEN <<Some(x[1])>> ELSE <<>>
            IN IF IsSome(c) /\ IsSome(t)
               THEN <<[variant |-> variant, tool_call_id |-> c[1], tool_call |-> t[1]]>>
               ELSE <<>>
      [] variant = "ToolCallResult" ->
            LET f == Find(ms, Chars("tool_result"))
                r == IF IsSome(f) THEN DeserializeToolResult(f[1]) ELSE <<>>
            IN IF IsSome(r) THEN <<[variant |-> variant, tool_result |-> r[1]]>> ELSE <<>>
      [] variant = "StateSnapshot" ->
            LET f == Find(ms, Chars("state"))
            IN IF IsSome(f) /\ f[1].t = "obj"
               THEN <<[variant |-> variant, state |-> f[1].members]>>
               ELSE <<>>
      [] variant = "StateDelta" ->
            LET d == ReqVal(ms, "delta")
            IN IF IsSome(d) THEN <<[variant |-> variant, delta |-> d[1]]>> ELSE <<>>
      [] variant = "Error" ->
            LET e == ReqStr(ms, "error")
                c == OptStr(ms, "code")
                d == OptVal(ms, "details")
            IN IF IsSome(e) /\ IsSome(c) /\ IsSome(d)
               THEN <<[variant |-> variant, error |-> e[1], code |-> c[1],
                       details |-> d[1]]>>
               ELSE <<>>

\* the variants of EventData in declaration order
EventDataVariants ==
    <<"RunStarted", "RunFinished", "RunAborted", "TextMessageStart",
      "TextMessageContent", "TextMessageChunk", "TextMessageEnd",
      "MessagesSnapshot", "ToolCallStart", "ToolCallChunk", "ToolCallEnd",
      "ToolCallResult", "StateSnapshot", "StateDelta", "Error">>

\* #[serde(untagged)]: the first variant, in declaration order, that the
\* members deserialize into; <<>> when none does
RECURSIVE FirstMatch(_, _)
FirstMatch(variants, ms) ==
    IF variants = <<>> THEN <<>>
    ELSE LET d == TryVariant(Head(variants), ms)
         IN IF IsSome(d) THEN d ELSE FirstMatch(Tail(variants), ms)

DeserializeEventData(ms) == FirstMatch(EventDataVariants, ms)

EnvelopeKeys == {Chars("type"), Chars("timestamp"), Chars("raw_event")}

DecodeErr == [ok |-> FALSE]

DecodeOk(e) == [ok |-> TRUE, event |-> e]

\* mutation of DeserializeBaseEvent: the `type` member is not validated, the
\* kind is taken from the payload variant that matched
DeserializeBaseEvent_kind_from_payload(v) ==
    IF v.t # "obj" THEN DecodeErr
    ELSE LET ms == v.members
             re == OptVal(ms, "raw_event")
             da == DeserializeEventData(Without(ms, EnvelopeKeys))
         IN IF IsSome(da)
            THEN DecodeOk([event_type |-> da[1].variant, timestamp |-> None,
                           raw_event |-> re[1], data |-> da[1]])
            ELSE DecodeErr

\* Deserialize for BaseEvent: the envelope fields by name, the other members
\* are handed to the flattened EventData
DeserializeBaseEvent(v) ==
    IF v.t # "obj" THEN DecodeErr
    ELSE LET ms == v.members
             ty == Find(ms, Chars("type"))
             et == IF IsSome(ty) /\ ty[1].t = "str"
                      /\ \E k \in DOMAIN EventType : Chars(EventType[k]) = ty[1].s
                   THEN <<CHOOSE k \in DOMAIN EventType : Chars(EventType[k]) = ty[1].s>>
                   ELSE <<>>
             tf == Find(ms, Chars("timestamp"))
             ts == IF ~IsSome(tf) \/ tf[1].t = "null" THEN <<None>>
                   ELSE IF tf[1].t # "str" THEN <<>>
                   ELSE LET n == ParseTimestamp(tf[1].s)
                        IN IF IsSome(n) THEN <<Some(n[1])>> ELSE <<>>
             re == OptVal(ms, "raw_event")
             da == DeserializeEventData(Without(ms, EnvelopeKeys))
         IN IF IsSome(et) /\ IsSome(ts) /\ IsSome(da)
            THEN DecodeOk([event_type |-> et[1], timestamp |-> ts[1],
                           raw_event |-> re[1], data |-> da[1]])
            ELSE DecodeErr

\* serde_json::from_str::<BaseEvent>(text)
from_str(text) ==
    LET r == ParseDocument(text)
    IN IF r.ok THEN DeserializeBaseEvent(r.v) ELSE DecodeErr

(***************************************************************************)
(* Encoder: encoder/sse_encoder.rs                                         *)
(***************************************************************************)
DataPrefix == Chars("data: ")

\* SseEncoder::encode_event_string
encode_event_string(e) == DataPrefix \o to_string(e) \o <<LF, LF>>

\* SseEncoder::encode_events_string: push_str of every frame, in input order
encode_events_string(events) ==
    Flatten([i \in 1..Len(events) |-> encode_event_string(events[i])])

\* SseEncoder::encode_event: the same text as bytes
encode_event(e) == Utf8Encode(DataPrefix \o to_string(e) \o <<LF, LF>>)

encode_message(message) == Utf8Encode(DataPrefix \o message \o <<LF, LF>>)

\* mutation of encode_comment: the frame ends with two line breaks, as the
\* other frames do
encode_comment_two_newlines(comment) ==
    Utf8Encode(Chars(": ") \o comment \o <<LF, LF>>)

encode_comment(comment) == Utf8Encode(Chars(": ") \o comment \o <<LF>>)

encode_ping == Utf8Encode(Chars(": ping") \o <<LF, LF>>)

\* SseEncoder::to_uint8_array: the bytes of an SSE string
to_uint8_array(sse_data) == Utf8Encode(sse_data)

(***************************************************************************)
(* Decoding paths: stream/event_stream.rs                                  *)
(***************************************************************************)
\* str::lines(): split at every \n, a trailing \r of a line is dropped, and a
\* final line without \n is still a line
StripCR(line) ==
    IF line # <<>> /\ line[Len(line)] = "\r" THEN SubSeq(line, 1, Len(line) - 1) ELSE line

RECURSIVE Lines(_)
Lines(text) ==
    IF text = <<>> THEN <<>>
    ELSE IF \E k \in 1..Len(text) : text[k] = LF
         THEN LET k == CHOOSE i \in 1..Len(text) :
                           text[i] = LF /\ \A j \in 1..(i - 1) : text[j] # LF
              IN <<StripCR(SubSeq(text, 1, k - 1))>> \o Lines(Drop(text, k))
         ELSE <<StripCR(text)>>

\* return values of next_event: Result<Option<BaseEvent>>
OkNone == [ok |-> TRUE, value |-> None]

OkSome(e) == [ok |-> TRUE, value |-> Some(e)]

ErrJson == [ok |-> FALSE, error |-> "JsonError"]

\* next_event, lines 53-72: what one chunk read from the reader is turned into
next_event_chunk(chunk) ==
    LET text == TextDecode(chunk) IN
    IF StartsWith(text, DataPrefix)
    THEN LET r == from_str(Drop(text, Len(DataPrefix)))
         IN IF r.ok THEN OkSome(r.event) ELSE ErrJson
    ELSE OkNone

\* the transform closure, lines 89-98: the events one chunk makes it enqueue
RECURSIVE EventsOfLines(_)
EventsOfLines(lines) ==
    IF lines = <<>> THEN <<>>
    ELSE LET line == Head(lines)
             r    == IF StartsWith(line, DataPrefix)
                     THEN from_str(Drop(line, Len(DataPrefix)))
                     ELSE DecodeErr
         IN (IF r.ok THEN <<r.event>> ELSE <<>>) \o EventsOfLines(Tail(lines))

Reverse(q) == [i \in 1..Len(q) |-> q[Len(q) + 1 - i]]

\* mutation of transform_chunk: the lines of a chunk are walked last to first
transform_chunk_reversed(chunk) == EventsOfLines(Reverse(Lines(TextDecode(chunk))))

transform_chunk(chunk) == EventsOfLines(Lines(TextDecode(chunk)))

(***************************************************************************)
(* Bounded inputs                                                          *)
(***************************************************************************)
\* longest producer script drawn from StreamItems
MaxFrames == 2

Event(d, ts, re) ==
    [event_type |-> d.variant, timestamp |-> ts, raw_event |-> re, data |-> d]

ToolCallA == [id |-> Chars("c"), name |-> Chars("f"), arguments |-> None]

ToolCallB == [id |-> Chars("c"), name |-> Chars("f"), arguments |-> Some(JStr(Chars("x")))]

MessageA ==
    [id |-> Chars("i"), role |-> "User", content |-> Chars("hi"),
     name |-> None, tool_call_id |-> None]

MessageB ==
    [id |-> Chars("j"), role |-> "Tool", content |-> <<"a", LF, DQ>>,
     name |-> Some(Chars("n")), tool_call_id |-> Some(Chars("c"))]

PatchOp(op, path) == JObj(Field("op", JStr(Chars(op))) \o Field("path", JStr(Chars(path))))

\* the six JSON Patch operations with their operation-specific members; a
\* serde_json map holds its keys in order, so the members are written sorted
PatchAdd ==
    JObj(Field("op", JStr(Chars("add"))) \o Field("path", JStr(Chars("/u/1")))
         \o Field("value", JObj(Field("name", JStr(Chars("John"))))))

PatchRemove == PatchOp("remove", "/u/2")

PatchReplace ==
    JObj(Field("op", JStr(Chars("replace"))) \o Field("path", JStr(Chars("/u/3")))
         \o Field("value", JStr(Chars("Jane Doe"))))

PatchMove ==
    JObj(Field("from", JStr(Chars("/u/old"))) \o Field("op", JStr(Chars("move")))
         \o Field("path", JStr(Chars("/u/new"))))

PatchCopy ==
    JObj(Field("from", JStr(Chars("/t/d"))) \o Field("op", JStr(Chars("copy")))
         \o Field("path", JStr(Chars("/u/1/t"))))

PatchTest ==
    JObj(Field("op", JStr(Chars("test"))) \o Field("path", JStr(Chars("/u/1/a")))
         \o Field("value", JNull))

AllPatchOperations ==
    JArr(<<PatchAdd, PatchRemove, PatchReplace, PatchMove, PatchCopy, PatchTest>>)

\* payloads of every kind, each optional field present and absent
Payloads ==
    {[variant |-> v, thread_id |-> Chars("t"), run_id |-> Chars("r")] :
        v \in {"RunStarted", "RunFinished"}}
    \cup {[variant |-> "RunAborted", thread_id |-> Chars("t"), run_id |-> Chars("r"),
           reason |-> o] : o \in {None, Some(Chars("why"))}}
    \cup {[variant |-> "TextMessageStart", message_id |-> Chars("m1"), role |-> o] :
           o \in {None} \cup {Some(r) : r \in DOMAIN Role}}
    \cup {[variant |-> v, message_id |-> Chars("m1"), delta |-> d] :
           v \in {"TextMessageContent", "TextMessageChunk"},
           d \in {Chars("Hi"), <<"a", LF, "U+E9">>}}
    \cup {[variant |-> "TextMessageEnd", message_id |-> Chars("m1")]}
    \cup {[variant |-> "MessagesSnapshot", messages |-> l] :
           l \in {<<>>, <<MessageA>>, <<MessageA, MessageB>>}}
    \cup {[variant |-> "ToolCallStart", tool_call_id |-> Chars("c"),
           tool_name |-> Chars("f"), parent_message_id |-> o] :
           o \in {None, Some(Chars("m1"))}}
    \cup {[variant |-> "ToolCallChunk", tool_call_id |-> Chars("c"), delta |-> Chars("{")]}
    \cup {[variant |-> "ToolCallEnd", tool_call_id |-> Chars("c"), tool_call |-> o] :
           o \in {None, Some(ToolCallA), Some(ToolCallB)}}
    \cup {[variant |-> "ToolCallResult",
           tool_result |-> [tool_call_id |-> Chars("c"), result |-> r, error |-> o]] :
           r \in {JNull, JStr(Chars("ok"))}, o \in {None, Some(Chars("bad"))}}
    \cup {[variant |-> "StateSnapshot", state |-> st] :
           st \in {<<>>, Field("k", JStr(Chars("v")))}}
    \cup {[variant |-> "StateDelta", delta |-> d] :
           d \in {JArr(<<>>), JArr(<<PatchOp("remove", "/a"), PatchOp("test", "/b")>>),
                  AllPatchOperations}}
    \cup {[variant |-> "Error", error |-> Chars("boom"), code |-> c, details |-> d] :
           c \in {None, Some(Chars("E1"))},
           d \in {None, Some(JObj(Field("k", JArr(<<JNull>>))))}}

Timestamps == {None, Some(0), Some(7)}

RawEvents == {None, Some(JStr(Chars("x"))), Some(JObj(<<>>))}

\* the constructible events of the model: event_type and variant agree
Events == {Event(d, ts, re) : d \in Payloads, ts \in Timestamps, re \in RawEvents}

\* what a producer hands to the encoder and writes to the stream
ItemEvent(e) == [op |-> "encode_event", event |-> e]

ItemMessage(m) == [op |-> "encode_message", message |-> m]

ItemPing == [op |-> "encode_ping"]

ItemBatch(es) == [op |-> "encode_events_string", events |-> es]

EvRunStarted ==
    Event([variant |-> "RunStarted", thread_id |-> Chars("t"), run_id |-> Chars("r")],
          None, None)

EvRunFinished ==
    Event([variant |-> "RunFinished", thread_id |-> Chars("t"), run_id |-> Chars("r")],
          None, None)

EvErrorA ==
    Event([variant |-> "Error", error |-> <<"U+E9">>, code |-> None, details |-> None],
          None, None)

EvErrorB ==
    Event([variant |-> "Error", error |-> <<"b">>, code |-> None, details |-> None],
          None, None)

\* a data line that is JSON but no event
BadMessage == Chars("{}")

StreamItems == {ItemEvent(EvErrorA), ItemEvent(EvErrorB), ItemPing, ItemMessage(BadMessage)}

\* producer scripts: every sequence of 1..MaxFrames stream items, the
\* RunStarted frame alone, and three batches
Scripts ==
    UNION {[1..k -> StreamItems] : k \in 1..MaxFrames}
    \cup {<<ItemEvent(EvRunStarted)>>,
          <<ItemBatch(<<>>)>>,
          <<ItemBatch(<<EvErrorA, EvErrorB>>)>>,
          <<ItemBatch(<<EvRunStarted, EvRunFinished>>)>>}

(***************************************************************************)
(* State machine                                                           *)
(***************************************************************************)
\* no shared encoder in use, no agent constructed, no request being served
RestIdle == producers = <<>> /\ calls = <<>> /\ agent = <<>> /\ worker = <<>>

\* no stream in use
StreamIdle ==
    /\ todo = <<>> /\ written = <<>> /\ wire = <<>> /\ source = "open"
    /\ consumer = "next_event" /\ last = <<>> /\ delivered = <<>> /\ errors = 0
    /\ eof = FALSE
    /\ enqueued = <<>> /\ transformRet = "none"

Idle == RestIdle /\ StreamIdle

\* a stream between one producer and one consumer
Init ==
    /\ rt = <<>>
    /\ todo \in Scripts
    /\ written = <<>>
    /\ wire = <<>>
    /\ source = "open"
    /\ consumer \in {"next_event", "transform"}
    /\ last = <<>>
    /\ delivered = <<>>
    /\ errors = 0
    /\ eof = FALSE
    /\ enqueued = <<>>
    /\ transformRet = "none"
    /\ RestIdle

\* the producer encodes the next item and writes the bytes to the stream
Send(bytes) ==
    /\ source = "open"
    /\ todo # <<>>
    /\ wire' = wire \o bytes
    /\ written' = Append(written, Head(todo))
    /\ todo' = Tail(todo)
    /\ UNCHANGED <<restVars, rt, source, consumer, last, delivered, errors, eof, enqueued, transformRet>>

SendEvent ==
    /\ todo # <<>> /\ Head(todo).op = "encode_event"
    /\ Send(encode_event(Head(todo).event))

SendMessage ==
    /\ todo # <<>> /\ Head(todo).op = "encode_message"
    /\ Send(encode_message(Head(todo).message))

SendPing ==
    /\ todo # <<>> /\ Head(todo).op = "encode_ping"
    /\ Send(encode_ping)

SendBatch ==
    /\ todo # <<>> /\ Head(todo).op = "encode_events_string"
    /\ Send(to_uint8_array(encode_events_string(Head(todo).events)))

\* the producer closes the stream after its last item
CloseStream ==
    /\ source = "open"
    /\ todo = <<>>
    /\ source' = "closed"
    /\ UNCHANGED <<restVars, rt, todo, written, wire, consumer, last, delivered, errors, eof,
                   enqueued, transformRet>>

\* EventStream::next_event: one reader.read(), which yields either the next
\* chunk (any non-empty prefix of the bytes in flight) or done
\* The consumer keeps the latest return value, the events it was given and
\* the number of errors it was given.
Returned(ret) ==
    /\ last' = <<ret>>
    /\ delivered' = IF ret.ok /\ IsSome(ret.value) THEN Append(delivered, ret.value[1])
                    ELSE delivered
    /\ errors' = IF ret.ok THEN errors ELSE errors + 1

NextEvent ==
    /\ consumer = "next_event"
    /\ ~eof
    /\ \/ \E n \in 1..Len(wire) :
            /\ Returned(next_event_chunk(SubSeq(wire, 1, n)))
            /\ wire' = Drop(wire, n)
            /\ eof' = eof
       \/ /\ wire = <<>>
          /\ source = "closed"
          /\ Returned(OkNone)
          /\ wire' = wire
          /\ eof' = TRUE
    /\ UNCHANGED <<restVars, rt, todo, written, source, consumer, enqueued, transformRet>>

\* the transform closure of create_transform_stream, called with one chunk
Transform ==
    /\ consumer = "transform"
    /\ \E n \in 1..Len(wire) :
            /\ enqueued' = enqueued \o transform_chunk(SubSeq(wire, 1, n))
            /\ wire' = Drop(wire, n)
    /\ transformRet' = "Ok"
    /\ UNCHANGED <<restVars, rt, todo, written, source, consumer, last, delivered, errors, eof>>

Next ==
    SendEvent \/ SendMessage \/ SendPing \/ SendBatch \/ CloseStream
    \/ NextEvent \/ Transform

Spec == Init /\ [][Next]_vars

\* the codec alone: serialize one event and deserialize the text
InitCodec == rt = <<>> /\ Idle

\* evaluated once for the whole event set
JsonOf == [e \in Events |-> to_string(e)]

DecodedOf == [e \in Events |-> from_str(JsonOf[e])]

RoundTrip ==
    /\ \E e \in Events :
          rt' = <<[event |-> e, json |-> JsonOf[e], decoded |-> DecodedOf[e]]>>
    /\ UNCHANGED <<streamVars, restVars>>

NextCodec == RoundTrip

SpecCodec == InitCodec /\ [][NextCodec]_vars

(***************************************************************************)
(* The codec and the encoder called directly.  Both are stateless, so one  *)
(* behaviour is one call; rt keeps its arguments and its result.           *)
(***************************************************************************)
\* longest list handed to encode_events_string and to a Vec<BaseEvent> round trip
MaxBatch == 2

\* JSON documents given to the decoder: a `type` member, then any choice of
\* payload members, then possibly a `role`
DocTypeNames ==
    {Chars(EventType[k]) : k \in DOMAIN EventType}
    \cup {Chars("NOT_A_KIND"), Chars("run_started")}

DocPool ==
    << <<"thread_id", "t">>, <<"run_id", "r">>, <<"message_id", "m1">>,
       <<"delta", "Hi">>, <<"error", "boom">> >>

DocRoles == {None, Some(Chars("user")), Some(Chars("invalid_role"))}

Document(ty, picks, role) ==
    JObj(Field("type", JStr(ty))
         \o Flatten([i \in 1..Len(DocPool) |->
                       IF i \in picks
                       THEN Field(DocPool[i][1], JStr(Chars(DocPool[i][2])))
                       ELSE <<>>])
         \o OptStrField("role", role))

Documents ==
    {Document(ty, picks, role) :
        ty \in DocTypeNames, picks \in SUBSET (1..Len(DocPool)), role \in DocRoles}

\* evaluated once for the whole document set
DocDecoded == [d \in Documents |-> from_str(WriteJson(d))]

\* serde_json::from_str::<BaseEvent> on a document
Decode ==
    /\ rt = <<>>
    /\ \E d \in Documents :
          rt' = <<[op |-> "from_str", doc |-> d, decoded |-> DocDecoded[d]]>>
    /\ UNCHANGED <<streamVars, restVars>>

\* evaluated once for the whole event set
FrameOf == [e \in Events |-> encode_event_string(e)]

\* SseEncoder::encode_event_string and SseEncoder::encode_event on one event
EncodeEvent ==
    /\ rt = <<>>
    /\ \E e \in Events :
          rt' = <<[op |-> "encode_event", event |-> e, out |-> FrameOf[e],
                   bytes |-> encode_event(e)]>>
    /\ UNCHANGED <<streamVars, restVars>>

\* events a list is made of: a plain one, one with a multi-byte character and
\* one with a line break in a string field
ListEvents ==
    {EvRunStarted, EvErrorA,
     Event([variant |-> "TextMessageContent", message_id |-> Chars("m1"),
            delta |-> <<"a", LF, "U+E9">>], None, None)}

EventLists == UNION {[1..k -> ListEvents] : k \in 0..MaxBatch}

\* SseEncoder::encode_events_string on a list
EncodeEvents ==
    /\ rt = <<>>
    /\ \E es \in EventLists :
          rt' = <<[op |-> "encode_events_string", events |-> es,
                   out |-> encode_events_string(es)]>>
    /\ UNCHANGED <<streamVars, restVars>>

\* texts handed to encode_message and encode_comment
Texts ==
    {<<>>, Chars("{}"), Chars("hi"), <<"U+E9">>, <<"a", LF, "b">>, Chars(": x"),
     Chars("data: ")}

EncodeMessage ==
    /\ rt = <<>>
    /\ \E m \in Texts :
          rt' = <<[op |-> "encode_message", text |-> m, bytes |-> encode_message(m)]>>
    /\ UNCHANGED <<streamVars, restVars>>

EncodeComment ==
    /\ rt = <<>>
    /\ \E c \in Texts :
          rt' = <<[op |-> "encode_comment", text |-> c, bytes |-> encode_comment(c)]>>
    /\ UNCHANGED <<streamVars, restVars>>

EncodePing ==
    /\ rt = <<>>
    /\ rt' = <<[op |-> "encode_ping", bytes |-> encode_ping]>>
    /\ UNCHANGED <<streamVars, restVars>>

\* serde_json::to_string(&events) and serde_json::from_str::<Vec<BaseEvent>>
to_string_vec(events) ==
    WriteJson(JArr([i \in 1..Len(events) |-> SerializeBaseEvent(events[i])]))

from_str_vec(text) ==
    LET r == ParseDocument(text) IN
    IF ~r.ok \/ r.v.t # "arr" THEN DecodeErr
    ELSE LET ds == [i \in 1..Len(r.v.items) |-> DeserializeBaseEvent(r.v.items[i])]
         IN IF \A i \in 1..Len(ds) : ds[i].ok
            THEN [ok |-> TRUE, events |-> [i \in 1..Len(ds) |-> ds[i].event]]
            ELSE DecodeErr

\* lists for the Vec round trip: the kinds of a run, in the order of a run
RunEvents ==
    {EvRunStarted, EvRunFinished, EvErrorB,
     Event([variant |-> "TextMessageStart", message_id |-> Chars("m1"),
            role |-> Some("Assistant")], Some(7), None),
     Event([variant |-> "ToolCallEnd", tool_call_id |-> Chars("c"),
            tool_call |-> Some(ToolCallB)], None, None)}

RunLists == UNION {[1..k -> RunEvents] : k \in 0..MaxBatch}

RoundTripVec ==
    /\ rt = <<>>
    /\ \E es \in RunLists :
          rt' = <<[op |-> "round_trip_vec", events |-> es, json |-> to_string_vec(es),
                   decoded |-> from_str_vec(to_string_vec(es))]>>
    /\ UNCHANGED <<streamVars, restVars>>

\* ---- the helper constructors of BaseEvent (core/events.rs 167-221); now is
\* what Utc::now() gave
run_started(thread_id, run_id, now) ==
    [event_type |-> "RunStarted", timestamp |-> Some(now), raw_event |-> None,
     data |-> [variant |-> "RunStarted", thread_id |-> thread_id, run_id |-> run_id]]

run_finished(thread_id, run_id, now) ==
    [event_type |-> "RunFinished", timestamp |-> Some(now), raw_event |-> None,
     data |-> [variant |-> "RunFinished", thread_id |-> thread_id, run_id |-> run_id]]

text_message_content(message_id, delta, now) ==
    [event_type |-> "TextMessageContent", timestamp |-> Some(now), raw_event |-> None,
     data |-> [variant |-> "TextMessageContent", message_id |-> message_id,
               delta |-> delta]]

text_message_start(message_id, role, now) ==
    [event_type |-> "TextMessageStart", timestamp |-> Some(now), raw_event |-> None,
     data |-> [variant |-> "TextMessageStart", message_id |-> message_id, role |-> role]]

text_message_end(message_id, now) ==
    [event_type |-> "TextMessageEnd", timestamp |-> Some(now), raw_event |-> None,
     data |-> [variant |-> "TextMessageEnd", message_id |-> message_id]]

\* mutation of error: the code is not taken over
error_without_code(message, code, now) ==
    [event_type |-> "Error", timestamp |-> Some(now), raw_event |-> None,
     data |-> [variant |-> "Error", error |-> message, code |-> None, details |-> None]]

error(message, code, now) ==
    [event_type |-> "Error", timestamp |-> Some(now), raw_event |-> None,
     data |-> [variant |-> "Error", error |-> message, code |-> code, details |-> None]]

\* arguments of the helpers
HelperIds == {Chars("t"), Chars("m1")}

HelperTexts == {<<>>, <<"a", LF, "U+E9">>}

HelperRoles == {None, Some("Assistant"), Some("User")}

HelperCodes == {None, Some(Chars("E1"))}

Nows == {0, 7}

\* one call of a helper constructor: its name, its arguments and the event
Helper(name, args, event) ==
    [op |-> "helper", helper |-> name, args |-> args, event |-> event]

HelperCalls ==
    {Helper("run_started", [thread_id |-> a, run_id |-> b], run_started(a, b, n)) :
        a \in HelperIds, b \in HelperIds, n \in Nows}
    \cup {Helper("run_finished", [thread_id |-> a, run_id |-> b], run_finished(a, b, n)) :
             a \in HelperIds, b \in HelperIds, n \in Nows}
    \cup {Helper("text_message_content", [message_id |-> a, delta |-> d],
                 text_message_content(a, d, n)) :
             a \in HelperIds, d \in HelperTexts, n \in Nows}
    \cup {Helper("text_message_start", [message_id |-> a, role |-> r],
                 text_message_start(a, r, n)) :
             a \in HelperIds, r \in HelperRoles, n \in Nows}
    \cup {Helper("text_message_end", [message_id |-> a], text_message_end(a, n)) :
             a \in HelperIds, n \in Nows}
    \cup {Helper("error", [error |-> d, code |-> c], error(d, c, n)) :
             d \in HelperTexts, c \in HelperCodes, n \in Nows}

Construct ==
    /\ rt = <<>>
    /\ \E c \in HelperCalls : rt' = <<c>>
    /\ UNCHANGED <<streamVars, restVars>>

\* serialize one event and deserialize the text, as the first call
RoundTripEvent == rt = <<>> /\ RoundTrip

InitApi == rt = <<>> /\ Idle

NextApi ==
    RoundTripEvent \/ RoundTripVec \/ Decode \/ EncodeEvent \/ EncodeEvents
    \/ EncodeMessage \/ EncodeComment \/ EncodePing \/ Construct

SpecApi == InitApi /\ [][NextApi]_vars

(***************************************************************************)
(* A stream that carries comment frames between data frames                *)
(***************************************************************************)
ItemComment(c) == [op |-> "encode_comment", comment |-> c]

SendComment ==
    /\ todo # <<>> /\ Head(todo).op = "encode_comment"
    /\ Send(encode_comment(Head(todo).comment))

\* comment texts: a plain one, and one with a line break followed by the
\* text of a data line
PlainComment == Chars("hi")

TwoLineComment == <<"x", LF>> \o DataPrefix \o to_string(EvErrorB)

CommentItems ==
    {ItemEvent(EvErrorB), ItemComment(PlainComment), ItemComment(TwoLineComment)}

CommentScripts == UNION {[1..k -> CommentItems] : k \in 1..MaxFrames}

InitComment ==
    /\ rt = <<>>
    /\ todo \in CommentScripts
    /\ written = <<>>
    /\ wire = <<>>
    /\ source = "open"
    /\ consumer \in {"next_event", "transform"}
    /\ last = <<>>
    /\ delivered = <<>>
    /\ errors = 0
    /\ eof = FALSE
    /\ enqueued = <<>>
    /\ transformRet = "none"
    /\ RestIdle

NextComment == SendEvent \/ SendComment \/ CloseStream \/ NextEvent \/ Transform

SpecComment == InitComment /\ [][NextComment]_vars

(***************************************************************************)
(* Vocabulary of the properties                                            *)
(***************************************************************************)
\* the latest direct call: its name, arguments and result
Call ==
    IF rt = <<>> THEN [op |-> "none"]
    ELSE IF "op" \in DOMAIN rt[1] THEN rt[1]
    ELSE [op |-> "round_trip"] @@ rt[1]

\* the events the attached consumer has been given so far
Seen == IF consumer = "next_event" THEN delivered ELSE enqueued

\* the producer is through and every byte it wrote has been read
Drained == todo = <<>> /\ wire = <<>>

\* the events an item hands to the encoder
ItemEvents(item) ==
    CASE item.op = "encode_event"          -> <<item.event>>
      [] item.op = "encode_events_string"  -> item.events
      [] OTHER                             -> <<>>

\* the bytes an item puts on the stream
ItemBytes(item) ==
    CASE item.op = "encode_event"          -> encode_event(item.event)
      [] item.op = "encode_message"        -> encode_message(item.message)
      [] item.op = "encode_ping"           -> encode_ping
      [] item.op = "encode_comment"        -> encode_comment(item.comment)
      [] item.op = "write"                 -> item.bytes
      [] item.op = "encode_events_string"  ->
            to_uint8_array(encode_events_string(item.events))

\* every event written so far, in writing order
SentEvents == Flatten([i \in 1..Len(written) |-> ItemEvents(written[i])])

\* every byte written so far, in writing order
StreamBytes == Flatten([i \in 1..Len(written) |-> ItemBytes(written[i])])

StreamEvents == {EvRunStarted, EvRunFinished, EvErrorA, EvErrorB}

\* what the JSON document of each stream event decodes to (evaluated once)
AsDecoded == [e \in StreamEvents |-> from_str(to_string(e))]

\* a is b with some elements left out
RECURSIVE IsSubseq(_, _)
IsSubseq(a, b) ==
    IF a = <<>> THEN TRUE
    ELSE IF b = <<>> THEN FALSE
    ELSE IF Head(a) = Head(b) THEN IsSubseq(Tail(a), Tail(b))
    ELSE IsSubseq(a, Tail(b))

\* what next_event gives a consumer that is handed the bytes as one chunk
OneChunkDelivered(bytes) ==
    LET ret == next_event_chunk(bytes)
    IN IF ret.ok /\ IsSome(ret.value) THEN <<ret.value[1]>> ELSE <<>>

OneChunkErrors(bytes) == IF next_event_chunk(bytes).ok THEN 0 ELSE 1

(***************************************************************************)
(* Properties                                                              *)
(***************************************************************************)
\* C1: chunk-split invariance.  Once the whole byte stream has been fed to the
\* decoder, in whatever chunks, the consumer has been given exactly what it is
\* given when the same bytes are fed as one chunk.
C1_ChunkSplitInvariance ==
    Drained =>
        /\ consumer = "transform" => enqueued = transform_chunk(StreamBytes)
        /\ consumer = "next_event" =>
              /\ delivered = OneChunkDelivered(StreamBytes)
              /\ errors = OneChunkErrors(StreamBytes)

\* C2: round trip.  Deserializing the JSON document of an event succeeds and
\* yields that event: same kind, timestamp, raw_event, variant and fields.
C2_RoundTrip ==
    rt # <<>> => rt[1].decoded = DecodeOk(rt[1].event)

\* C3: kind and payload agree.  Every event that decoding returns has the
\* payload variant named by its type discriminator.
C3_KindMatchesPayload ==
    (rt # <<>> /\ rt[1].decoded.ok) =>
        rt[1].decoded.event.data.variant = rt[1].decoded.event.event_type

\* C4: no partial event.  While bytes of the RunStarted{t, r} frame are still
\* outstanding the consumer has been given neither an event nor an error, and
\* once the frame is complete it has been given exactly that one event.
C4_NoPartialEvent ==
    written = <<ItemEvent(EvRunStarted)>> =>
        IF wire # <<>>
        THEN Seen = <<>> /\ errors = 0
        ELSE Seen = <<EvRunStarted>> /\ errors = 0

\* C5: a comment line followed by one data line decodes to exactly one event,
\* the event of the data line, however the bytes are grouped into chunks.
C5_CommentThenData ==
    \A e \in {EvErrorA, EvErrorB} :
        (written = <<ItemPing, ItemEvent(e)>> /\ Drained) => Seen = <<e>>

\* C6: batch encoding.  encode_events_string is the concatenation of the
\* single frames in input order, and the decoder fed with a batch gives the
\* consumer the events of the batch, in order, one per input event.
C6_BatchDecodesInOrder ==
    \A i \in 1..Len(written) :
        written[i].op = "encode_events_string" =>
            /\ encode_events_string(written[i].events)
                 = Flatten([k \in 1..Len(written[i].events) |->
                              DataPrefix \o to_string(written[i].events[k]) \o <<LF, LF>>])
            /\ Drained => (Seen = written[i].events /\ errors = 0)

C8_ErrorIsLocal ==
    \A e \in {EvErrorA, EvErrorB} :
        (written = <<ItemMessage(BadMessage), ItemEvent(e)>> /\ Drained) =>
            /\ Seen = <<e>>
            /\ consumer = "next_event" => errors = 1

\* the lines of a chunk that begin with "data: " and do not decode
FailingDataLines(chunk) ==
    SelectSeq(Lines(TextDecode(chunk)),
              LAMBDA line : StartsWith(line, DataPrefix)
                            /\ ~from_str(Drop(line, Len(DataPrefix))).ok)

\* C9: no decode error is swallowed.  Whenever the decoder consumes a chunk
\* holding a data line that does not decode, the step signals an error: the
\* next_event call returns Err, the transform call returns Err.
C9_NoSilentDecodeError ==
    [][(Len(wire') < Len(wire)
        /\ FailingDataLines(SubSeq(wire, 1, Len(wire) - Len(wire'))) # <<>>)
       => \/ consumer = "next_event" /\ errors' = errors + 1
          \/ consumer = "transform" /\ transformRet' = "Err"]_vars

\* C10: the stream-ended outcome Ok(None) is returned only when the byte
\* source has reported its end.
C10_EndOnlyAtEnd ==
    (consumer = "next_event" /\ last = <<OkNone>>) => eof

\* the kind names of the wire
KindNames == {Chars(EventType[k]) : k \in DOMAIN EventType}

\* the value of a member of a document, as an Option
DocMember(d, name) == Find(d.members, Chars(name))

DocHas(d, name) == IsSome(DocMember(d, name))

\* C11: unknown kind rejection.  A document whose `type` is not one of the
\* kind names is rejected, whatever other members it has.
C11_UnknownKindRejected ==
    (Call.op = "from_str" /\ DocMember(Call.doc, "type")[1].s \notin KindNames)
        => ~Call.decoded.ok

\* C11 witness: NOT_A_KIND with the members of a RunStarted payload was rejected
C11_UnknownKindWithRunFields ==
    /\ Call.op = "from_str"
    /\ DocMember(Call.doc, "type") = Some(JStr(Chars("NOT_A_KIND")))
    /\ DocHas(Call.doc, "thread_id") /\ DocHas(Call.doc, "run_id")
    /\ ~Call.decoded.ok

\* C12: invalid role rejection.  A TEXT_MESSAGE_START document whose `role`
\* is outside the five role names is rejected.
C12_InvalidRoleRejected ==
    (/\ Call.op = "from_str"
     /\ DocMember(Call.doc, "type") = Some(JStr(Chars(EventType.TextMessageStart)))
     /\ DocMember(Call.doc, "role") = Some(JStr(Chars("invalid_role"))))
        => ~Call.decoded.ok

\* the members each payload struct requires (fields that are not Option)
RequiredMembers ==
    [RunStarted         |-> {"thread_id", "run_id"},
     RunFinished        |-> {"thread_id", "run_id"},
     RunAborted         |-> {"thread_id", "run_id"},
     TextMessageStart   |-> {"message_id"},
     TextMessageContent |-> {"message_id", "delta"},
     TextMessageChunk   |-> {"message_id", "delta"},
     TextMessageEnd     |-> {"message_id"},
     MessagesSnapshot   |-> {"messages"},
     ToolCallStart      |-> {"tool_call_id", "tool_name"},
     ToolCallChunk      |-> {"tool_call_id", "delta"},
     ToolCallEnd        |-> {"tool_call_id"},
     ToolCallResult     |-> {"tool_result"},
     StateSnapshot      |-> {"state"},
     StateDelta         |-> {"delta"},
     Error              |-> {"error"}]

\* the kind a document names, when it names one
DocKind(d) ==
    CHOOSE k \in DOMAIN EventType : DocMember(d, "type") = Some(JStr(Chars(EventType[k])))

\* C13: missing required field rejection.  A document whose `type` is a kind
\* name and which lacks a member that kind's payload requires is rejected.
C13_MissingFieldRejected ==
    (/\ Call.op = "from_str"
     /\ DocMember(Call.doc, "type")[1].s \in KindNames
     /\ \E f \in RequiredMembers[DocKind(Call.doc)] : ~DocHas(Call.doc, f))
        => ~Call.decoded.ok

\* how many times a text holds two line breaks in a row
Terminators(text) ==
    Cardinality({i \in 1..(Len(text) - 1) : text[i] = LF /\ text[i + 1] = LF})

\* C14: frame format.  The frame of an event is `data: `, a JSON document on
\* one line and two line breaks, with no other line break in it; the bytes
\* of encode_event are that text; a batch of n events has n terminators.
C14_FrameFormat ==
    /\ Call.op = "encode_event" =>
          LET out == Call.out
              n   == Len(out)
          IN /\ StartsWith(out, DataPrefix)
             /\ n >= Len(DataPrefix) + 2
             /\ out[n - 1] = LF /\ out[n] = LF
             /\ \A i \in 1..(n - 2) : out[i] # LF
             /\ ParseDocument(SubSeq(out, Len(DataPrefix) + 1, n - 2)).ok
             /\ Call.bytes = Utf8Encode(out)
    /\ Call.op = "encode_events_string" =>
          Terminators(Call.out) = Len(Call.events)

\* C14 witness: an event with a line break in a string field was encoded
C14_LineBreakInField ==
    /\ Call.op = "encode_event"
    /\ Call.event.data.variant = "TextMessageContent"
    /\ \E i \in 1..Len(Call.event.data.delta) : Call.event.data.delta[i] = LF
    /\ Terminators(Call.out) = 1

\* the Option fields of an event that sit at the top level of its document,
\* each with whether it is Some: <<member name, present>>
OptionalMembers(e) ==
    {<<"timestamp", IsSome(e.timestamp)>>, <<"raw_event", IsSome(e.raw_event)>>}
    \cup CASE e.data.variant = "RunAborted" -> {<<"reason", IsSome(e.data.reason)>>}
           [] e.data.variant = "TextMessageStart" -> {<<"role", IsSome(e.data.role)>>}
           [] e.data.variant = "ToolCallStart" ->
                 {<<"parent_message_id", IsSome(e.data.parent_message_id)>>}
           [] e.data.variant = "ToolCallEnd" -> {<<"tool_call", IsSome(e.data.tool_call)>>}
           [] e.data.variant = "Error" ->
                 {<<"code", IsSome(e.data.code)>>, <<"details", IsSome(e.data.details)>>}
           [] OTHER -> {}

\* the JSON document inside a frame
FrameDocument(frame) ==
    ParseDocument(SubSeq(frame, Len(DataPrefix) + 1, Len(frame) - 2)).v

\* C15: omission of absent optionals.  In the encoded object an optional
\* field is a key exactly when it is present; an absent one is not a key,
\* so it is not written as null either.
C15_AbsentOptionalsOmitted ==
    Call.op = "encode_event" =>
        \A o \in OptionalMembers(Call.event) :
            /\ DocHas(FrameDocument(Call.out), o[1]) <=> o[2]
            /\ ~o[2] => DocMember(FrameDocument(Call.out), o[1]) # Some(JNull)

\* C15 witness: an Error event with details and raw_event, without code and
\* timestamp, was encoded
C15_MixedOptionals ==
    /\ Call.op = "encode_event"
    /\ Call.event.data.variant = "Error"
    /\ Call.event.timestamp = None /\ Call.event.data.code = None
    /\ IsSome(Call.event.raw_event) /\ IsSome(Call.event.data.details)
    /\ DocHas(FrameDocument(Call.out), "details")
    /\ ~DocHas(FrameDocument(Call.out), "code")

EvTextMessageContent ==
    Event([variant |-> "TextMessageContent", message_id |-> Chars("m1"),
           delta |-> Chars("Hi")], None, None)

\* C16: bit-exact wire form.  TextMessageContent{message_id: "m1", delta:
\* "Hi"} without timestamp and raw_event is encoded as exactly this frame:
\* the key `type` with the upper-snake-case kind name, the payload fields
\* beside it at the top level.
C16_ExactWireForm ==
    (Call.op = "encode_event" /\ Call.event = EvTextMessageContent) =>
        /\ Call.out =
              Chars("data: {\"type\":\"TEXT_MESSAGE_CONTENT\",\"message_id\":\"m1\",\"delta\":\"Hi\"}")
              \o <<LF, LF>>
        /\ Call.bytes = Call.out
        /\ ~DocHas(FrameDocument(Call.out), "data")

\* C16 witness: that event was encoded, all its characters single bytes
C16_TextMessageContentEncoded ==
    /\ Call.op = "encode_event"
    /\ Call.event = EvTextMessageContent
    /\ Len(Call.out) = Len(Call.bytes)
    /\ DocMember(FrameDocument(Call.out), "type") = Some(JStr(Chars("TEXT_MESSAGE_CONTENT")))

\* C17: a StateDelta whose delta is the six patch operations add, remove,
\* replace, move, copy, test decodes from its own encoding as a StateDelta
\* with the same six operations in the same order, every member unchanged.
C17_StateDeltaRoundTrip ==
    (Call.op = "round_trip" /\ Call.event.data.variant = "StateDelta"
     /\ Call.event.data.delta = AllPatchOperations) =>
        /\ Call.decoded.ok
        /\ Call.decoded.event.data.variant = "StateDelta"
        /\ Call.decoded.event.data.delta.t = "arr"
        /\ Len(Call.decoded.event.data.delta.items) = Len(AllPatchOperations.items)
        /\ \A i \in 1..Len(AllPatchOperations.items) :
              Call.decoded.event.data.delta.items[i] = AllPatchOperations.items[i]

\* C17 witness: the six operations went through encode and decode with a
\* timestamp set, and the fourth decoded operation is the move with its `from`
C17_SixOperationsDecoded ==
    /\ Call.op = "round_trip"
    /\ Call.event.data.variant = "StateDelta"
    /\ Call.event.data.delta = AllPatchOperations
    /\ IsSome(Call.event.timestamp)
    /\ Call.decoded.ok
    /\ DocMember(Call.decoded.event.data.delta.items[4], "from")
          = Some(JStr(Chars("/u/old")))

\* C18: kind preservation.  Deserializing the serialization of an event
\* succeeds and gives an event of the same event_type; a serialized list of
\* events deserializes to a list of the same length with the same
\* event_type at every position.
C18_KindPreserved ==
    /\ Call.op = "round_trip" =>
          /\ Call.decoded.ok
          /\ Call.decoded.event.event_type = Call.event.event_type
    /\ Call.op = "round_trip_vec" =>
          /\ Call.decoded.ok
          /\ Len(Call.decoded.events) = Len(Call.events)
          /\ \A i \in 1..Len(Call.events) :
                Call.decoded.events[i].event_type = Call.events[i].event_type

\* C18 witness: a list of two events of different kinds, the first with a
\* timestamp, was serialized and deserialized
C18_TwoKindsInList ==
    /\ Call.op = "round_trip_vec"
    /\ Len(Call.events) = 2
    /\ Call.events[1].event_type = "TextMessageStart"
    /\ Call.events[2].event_type = "RunFinished"
    /\ Call.decoded.ok
    /\ Call.decoded.events[2].event_type = "RunFinished"

\* C19: a comment frame carries no event.  Every event the consumer is
\* given is the decoded form of an event written with encode_event; the
\* comment frames on the stream contribute none.
C19_CommentCarriesNoEvent ==
    \A i \in 1..Len(Seen) :
        \E j \in 1..Len(SentEvents) : Seen[i] = AsDecoded[SentEvents[j]].event

\* C20: auxiliary frames are byte-exact.  encode_message(m) is the bytes of
\* `data: `, m and two line breaks; encode_comment(c) the bytes of `: `, c
\* and one line break; encode_ping the fixed bytes of `: ping` and two line
\* breaks.  Each call returns bytes, never an error.
C20_AuxiliaryFramesExact ==
    /\ Call.op = "encode_message" =>
          Call.bytes = Chars("data: ") \o Utf8Encode(Call.text) \o <<LF, LF>>
    /\ Call.op = "encode_comment" =>
          Call.bytes = Chars(": ") \o Utf8Encode(Call.text) \o <<LF>>
    /\ Call.op = "encode_ping" =>
          Call.bytes = <<":", " ", "p", "i", "n", "g", LF, LF>>

\* C20 witness: a comment holding a multi-byte character was encoded
C20_MultiByteComment ==
    /\ Call.op = "encode_comment"
    /\ Call.text = <<"U+E9">>
    /\ Call.bytes = <<":", " ", "xC3", "xA9", LF>>

(***************************************************************************)
(* One encoder shared by several producers: encoder/sse_encoder.rs         *)
(***************************************************************************)
Producers == 1..2

\* SseEncoder::encode_event_js_export is handed the event as a JS value
ItemEventJs(doc) == [op |-> "encodeEvent", doc |-> doc]

\* what an encode call returns: the bytes of the frame, or an error
EncOk(bytes) == [ok |-> TRUE, bytes |-> bytes]

EncErr == [ok |-> FALSE, error |-> "JsValue"]

\* SseEncoder::encode_event_js_export: the value is deserialized into a
\* BaseEvent first, and the call fails when it is no event
encode_event_js_export(doc) ==
    LET r == DeserializeBaseEvent(doc)
    IN IF r.ok THEN EncOk(encode_event(r.event)) ELSE EncErr

\* one call on the encoder, by the method called
encode_call(item) ==
    IF item.op = "encodeEvent" THEN encode_event_js_export(item.doc)
    ELSE EncOk(ItemBytes(item))

\* a JS value that is an event, and one that is none (no such kind)
EventDoc == SerializeBaseEvent(EvRunStarted)

NoEventDoc == Document(Chars("NOT_A_KIND"), {1, 2}, None)

EncoderItems ==
    {ItemEvent(EvErrorA), ItemPing, ItemEventJs(EventDoc), ItemEventJs(NoEventDoc)}

\* evaluated once for the whole item set
EncodeResults == [item \in EncoderItems |-> encode_call(item)]

\* mutation of Encode: the encoder keeps the frame of the latest successful
\* call in a buffer of its own and the next call writes behind it
Encode_shared_buffer(earlier, item) ==
    LET r == EncodeResults[item]
    IN IF r.ok /\ earlier # <<>> /\ earlier[Len(earlier)].result.ok
       THEN EncOk(earlier[Len(earlier)].result.bytes \o r.bytes)
       ELSE r

\* a call made on the shared encoder after the calls in earlier: every method
\* takes &self, the only field is the TextEncoder, and the JSON text and the
\* frame are locals of the call
Encode(earlier, item) == EncodeResults[item]

EncoderScripts == UNION {[1..k -> EncoderItems] : k \in 1..MaxFrames}

InitEncoder ==
    /\ rt = <<>>
    /\ StreamIdle
    /\ producers \in [Producers -> EncoderScripts]
    /\ calls = <<>>
    /\ agent = <<>>
    /\ worker = <<>>

\* some producer makes its next call; the calls of different producers
\* interleave in any order
EncodeCall ==
    \E p \in Producers :
        /\ producers[p] # <<>>
        /\ calls' = Append(calls, [producer |-> p, item |-> Head(producers[p]),
                                   result |-> Encode(calls, Head(producers[p]))])
        /\ producers' = [producers EXCEPT ![p] = Tail(@)]
        /\ UNCHANGED <<rt, streamVars, agent, worker>>

NextEncoder == EncodeCall

SpecEncoder == InitEncoder /\ [][NextEncoder]_vars

ItemRaw(bytes) == [op |-> "write", bytes |-> bytes]

SendRaw ==
    /\ todo # <<>> /\ Head(todo).op = "write"
    /\ Send(Head(todo).bytes)

\* a final data line the server did not terminate
UnterminatedLine == Utf8Encode(DataPrefix \o to_string(EvErrorB))

SourceItems == {ItemEvent(EvErrorA), ItemEvent(EvErrorB), ItemRaw(UnterminatedLine)}

SourceScripts == UNION {[1..k -> SourceItems] : k \in 1..MaxFrames}

\* the value a failed read() is rejected with, by the way the transport
\* failed: a string, or an Error object
StoredError == [reset |-> JStr(Chars("reset")), aborted |-> JObj(<<>>)]

\* JsValue::as_string
as_string(value) == IF value.t = "str" THEN Some(value.s) ELSE None

\* mutation of FromJsValue: the rejection is reported as the end of the stream
FromJsValue_end_of_stream(value) == OkNone

\* impl From<JsValue> for AgUiError, applied by the `?` on reader.read()
FromJsValue(value) ==
    [ok |-> FALSE, error |-> "WasmBindgenError",
     message |-> IF IsSome(as_string(value)) THEN as_string(value)[1]
                 ELSE Chars("Unknown JS error")]

InitSource ==
    /\ rt = <<>>
    /\ todo \in SourceScripts
    /\ written = <<>>
    /\ wire = <<>>
    /\ source = "open"
    /\ consumer \in {"next_event", "transform"}
    /\ last = <<>>
    /\ delivered = <<>>
    /\ errors = 0
    /\ eof = FALSE
    /\ enqueued = <<>>
    /\ transformRet = "none"
    /\ RestIdle

\* the transport fails: the stream is errored, the chunks not yet read are
\* gone and every read() from now on is rejected with the stored error
TransportFail ==
    /\ source = "open"
    /\ source' \in DOMAIN StoredError
    /\ wire' = <<>>
    /\ UNCHANGED <<restVars, rt, todo, written, consumer, last, delivered, errors, eof,
                   enqueued, transformRet>>

\* EventStream::next_event when reader.read() is rejected (line 40); the
\* consumer gives up calling after MaxFrames + 1 errors
NextEventReadFailed ==
    /\ consumer = "next_event"
    /\ ~eof
    /\ source \in DOMAIN StoredError
    /\ errors <= MaxFrames
    /\ Returned(FromJsValue(StoredError[source]))
    /\ UNCHANGED <<restVars, rt, todo, written, wire, source, consumer, eof, enqueued,
                   transformRet>>

NextSource ==
    SendEvent \/ SendRaw \/ CloseStream \/ TransportFail
    \/ NextEvent \/ NextEventReadFailed \/ Transform

SpecSource == InitSource /\ [][NextSource]_vars

\* one step taken after the read from the byte source has failed
C22_AfterFailure ==
    source \in DOMAIN StoredError =>
        /\ delivered' = delivered
        /\ eof' = eof
        /\ (last' # last \/ errors' # errors) =>
              /\ last' # <<OkNone>>
              /\ ~last'[1].ok
              /\ last'[1].error = "WasmBindgenError"
              /\ errors' = errors + 1

\* C22: a transport error is terminal.  Once reading from the byte source has
\* failed, every next_event call returns an error, which is the bindgen error
\* and not the end-of-stream outcome Ok(None), the end of the stream is never
\* reported and no further event is delivered.
C22_TransportErrorTerminal == [][C22_AfterFailure]_vars

\* the transport failed after an event had been delivered, and two calls
\* made since then have both returned the bindgen error
C22_TwoFailedReads ==
    /\ source = "aborted"
    /\ delivered = <<EvErrorB>>
    /\ errors = 2
    /\ last = <<FromJsValue(StoredError[source])>>
    /\ last[1].message = Chars("Unknown JS error")

(***************************************************************************)
(* Line reassembly across chunks                                           *)
(***************************************************************************)
\* the bytes the consumer has read so far
Consumed == SubSeq(StreamBytes, 1, Len(StreamBytes) - Len(wire))

\* the lines of a text that have their line break
CompleteLines(text) ==
    LET ls == Lines(text)
    IN IF text = <<>> \/ text[Len(text)] = LF THEN ls
       ELSE SubSeq(ls, 1, Len(ls) - 1)

\* the text behind the last line break
RECURSIVE PartialLine(_)
PartialLine(text) ==
    IF text = <<>> \/ text[Len(text)] = LF THEN <<>>
    ELSE Append(PartialLine(SubSeq(text, 1, Len(text) - 1)), text[Len(text)])

\* C23: reassembler buffer invariant.  After every chunk the transform path
\* has processed, every complete line among the bytes read so far has been
\* emitted: the events of those lines have all been enqueued, in order,
\* whichever chunk the first bytes of a line came in (the bytes of a trailing
\* partial line are kept for the next chunk, not dropped).
C23_CompleteLinesEmitted ==
    consumer = "transform" =>
        IsSubseq(EventsOfLines(CompleteLines(TextDecode(Consumed))), enqueued)

\* the stream is over for the attached consumer: next_event has reported the
\* end, or the transform path has been handed the last chunk of a closed source
AtEnd ==
    IF consumer = "next_event" THEN eof ELSE Drained /\ source = "closed"

\* what the line still pending at the end of the stream decodes to
PendingEvents == EventsOfLines(<<PartialLine(TextDecode(StreamBytes))>>)

\* C24: end-of-stream flush.  When the byte source has ended behind a final
\* line without line break that is the data line of an event, the consumer
\* has been given that event as its last one by the time the stream is over
\* for it; when the bytes end with a line break, the end itself adds nothing.
C24_FinalLineFlushed ==
    AtEnd =>
        /\ PendingEvents # <<>> =>
              /\ Seen # <<>>
              /\ Seen[Len(Seen)] = PendingEvents[1]
        /\ (consumer = "next_event" /\ PartialLine(TextDecode(StreamBytes)) = <<>>) =>
              last = <<OkNone>>

(***************************************************************************)
(* The example worker: examples/worker/src/worker.rs                       *)
(***************************************************************************)
\* Result<T, JsValue>
ResOk(x) == [ok |-> TRUE, value |-> x]

ResErr(e) == [ok |-> FALSE, error |-> e]

\* what Uuid::new_v4().to_string() can give
Uuids == {Chars("u1"), Chars("u2")}

Content ==
    Chars("Hello! I'm an AG-UI agent running in a Cloudflare Worker (Pure Rust implementation).")

\* the five events the start closure builds, in the order it builds them
StartEvents(thread_id, run_id, message_id) ==
    << Event([variant |-> "RunStarted", thread_id |-> thread_id, run_id |-> run_id],
             None, None),
       Event([variant |-> "TextMessageStart", message_id |-> message_id,
              role |-> Some("Assistant")], None, None),
       Event([variant |-> "TextMessageContent", message_id |-> message_id,
              delta |-> Content], None, None),
       Event([variant |-> "TextMessageEnd", message_id |-> message_id], None, None),
       Event([variant |-> "RunFinished", thread_id |-> thread_id, run_id |-> run_id],
             None, None) >>

\* calls on the ReadableStreamDefaultController
Enqueue(chunk) == [op |-> "enqueue", chunk |-> chunk]

Close == [op |-> "close"]

\* mutation of start: the stream is closed before the last frame is enqueued
start_closing_early(thread_id, run_id, message_id) ==
    LET es == StartEvents(thread_id, run_id, message_id)
    IN [i \in 1..4 |-> Enqueue(encode_event(es[i]))]
       \o <<Close, Enqueue(encode_event(es[5]))>>

\* the start closure of create_agent_stream: the controller calls it makes, in
\* order; message_id is what Uuid::new_v4 gave
start(thread_id, run_id, message_id) ==
    LET es == StartEvents(thread_id, run_id, message_id)
    IN [i \in 1..5 |-> Enqueue(encode_event(es[i]))] \o <<Close>>

\* the ReadableStream after the controller calls: its queue of chunks and
\* whether it was closed; enqueue on a closed stream throws, which ends the
\* start closure through its `?`
RECURSIVE Controlled(_, _)
Controlled(stream, ops) ==
    IF ops = <<>> \/ stream.closed THEN stream
    ELSE IF Head(ops).op = "close"
         THEN Controlled([stream EXCEPT !.closed = TRUE], Tail(ops))
         ELSE Controlled([stream EXCEPT !.queue = Append(@, Head(ops).chunk)], Tail(ops))

\* create_agent_stream: new ReadableStream(source) runs start at once
create_agent_stream(input, message_id) ==
    LET ops == start(input.thread_id, input.run_id, message_id)
    IN [kind |-> "stream", ops |-> ops,
        stream |-> Controlled([queue |-> <<>>, closed |-> FALSE], ops)]

Response(status, headers, body) == [status |-> status, headers |-> headers, body |-> body]

TextBody(text) == [kind |-> "text", text |-> text]

NoBody == [kind |-> "none"]

CorsHeaders ==
    {<<"Access-Control-Allow-Origin", "*">>,
     <<"Access-Control-Allow-Methods", "POST, OPTIONS">>,
     <<"Access-Control-Allow-Headers", "Content-Type">>}

serve_test_page ==
    ResOk(Response(200, {<<"Content-Type", "text/html; charset=utf-8">>,
                         <<"Cache-Control", "no-cache">>},
                   TextBody("TEST_HTML")))

\* serde_wasm_bindgen::from_value::<RunAgentInput>: thread_id and run_id are
\* required strings, the other fields are Options
DeserializeRunAgentInput(v) ==
    IF v.t = "obj" /\ IsSome(ReqStr(v.members, "thread_id"))
                  /\ IsSome(ReqStr(v.members, "run_id"))
    THEN ResOk([thread_id |-> ReqStr(v.members, "thread_id")[1],
                run_id |-> ReqStr(v.members, "run_id")[1]])
    ELSE ResErr("from_value")

\* request.body is None when it is not JSON: request.json() is rejected
handle_agent_request(request, message_id) ==
    IF ~IsSome(request.body) THEN ResErr("json")
    ELSE LET input == DeserializeRunAgentInput(request.body[1])
         IN IF ~input.ok THEN input
            ELSE ResOk(Response(200,
                                {<<"Content-Type", "text/event-stream">>,
                                 <<"Cache-Control", "no-cache">>,
                                 <<"Transfer-Encoding", "chunked">>} \cup CorsHeaders,
                                create_agent_stream(input.value, message_id)))

handle_cors_preflight ==
    ResOk(Response(204, CorsHeaders \cup {<<"Access-Control-Max-Age", "86400">>}, NoBody))

create_error_response(message, status) ==
    ResOk(Response(status, {<<"Content-Type", "text/plain; charset=utf-8">>,
                            <<"Access-Control-Allow-Origin", "*">>},
                   TextBody(message)))

handle_request(request, message_id) ==
    CASE request.pathname \in {"/", "/test.html"} /\ request.method = "GET" ->
            serve_test_page
      [] request.pathname = "/awp" /\ request.method = "POST" ->
            handle_agent_request(request, message_id)
      [] request.pathname = "/awp" /\ request.method = "OPTIONS" ->
            handle_cors_preflight
      [] OTHER -> create_error_response("Not found", 404)

\* how the promise of fetch settles
Resolved(response) == [settled |-> "resolved", response |-> response]

Rejected(e) == [settled |-> "rejected", error |-> e]

\* mutation of fetch: the error of the handler is passed on, which rejects
\* the promise
fetch_rejecting(request, message_id) ==
    LET result == handle_request(request, message_id)
    IN IF result.ok THEN Resolved(result.value) ELSE Rejected(result.error)

\* fetch, the worker's entry point
fetch(request, message_id) ==
    LET result == handle_request(request, message_id)
    IN IF result.ok THEN Resolved(result.value)
       ELSE Resolved(create_error_response("Internal Server Error", 500).value)

\* requests: the routes, a path and a method outside them, and as body a
\* RunAgentInput, an object without run_id, and text that is not JSON
Pathnames == {"/", "/test.html", "/awp", "/other"}

Methods == {"GET", "POST", "OPTIONS", "DELETE"}

InputDoc(thread_id, run_id) ==
    JObj(Field("thread_id", JStr(Chars(thread_id))) \o Field("run_id", JStr(Chars(run_id))))

Bodies ==
    {Some(InputDoc(t, r)) : t \in {"t", "t2"}, r \in {"r", "r2"}}
    \cup {Some(JObj(Field("thread_id", JStr(Chars("t"))))), None}

Requests ==
    {[pathname |-> p, method |-> m, body |-> b] :
        p \in Pathnames, m \in Methods, b \in Bodies}

InitWorker ==
    /\ rt = <<>>
    /\ StreamIdle
    /\ producers = <<>> /\ calls = <<>> /\ agent = <<>>
    /\ worker = <<>>

\* the stream a response carries, None when it carries none
BodyStream(promise) ==
    IF promise.settled = "resolved" /\ promise.response.body.kind = "stream"
    THEN Some(promise.response.body.stream)
    ELSE None

\* a request arrives and fetch settles its promise; body is the state of the
\* response's stream as the client reads it
Fetch ==
    /\ worker = <<>>
    /\ \E request \in Requests, message_id \in Uuids :
          LET promise == fetch(request, message_id)
          IN worker' = <<[request |-> request, promise |-> promise,
                          body |-> BodyStream(promise)]>>
    /\ UNCHANGED <<rt, streamVars, producers, calls, agent>>

\* mutation of read: the chunks queued are handed over as one
read_coalesced(queue) == [value |-> Flatten(queue), rest |-> <<>>]

\* reader.read() on a stream with chunks queued: the first chunk
read(queue) == [value |-> Head(queue), rest |-> Tail(queue)]

\* EventStream::next_event on the body of the worker's response
WorkerNextEvent ==
    /\ worker # <<>>
    /\ IsSome(worker[1].body)
    /\ ~eof
    /\ LET stream == worker[1].body[1] IN
       IF stream.queue # <<>>
       THEN LET r == read(stream.queue)
            IN /\ Returned(next_event_chunk(r.value))
               /\ worker' = <<[worker[1] EXCEPT !.body = Some([stream EXCEPT !.queue = r.rest])]>>
               /\ eof' = FALSE
       ELSE /\ stream.closed
            /\ Returned(OkNone)
            /\ worker' = worker
            /\ eof' = TRUE
    /\ UNCHANGED <<rt, todo, written, wire, source, consumer, enqueued, transformRet,
                   producers, calls, agent>>

NextWorker == Fetch \/ WorkerNextEvent

SpecWorker == InitWorker /\ [][NextWorker]_vars

\* the request being served is an agent run: POST /awp with a RunAgentInput
AgentRun ==
    /\ worker # <<>>
    /\ worker[1].request.pathname = "/awp" /\ worker[1].request.method = "POST"
    /\ IsSome(worker[1].request.body)
    /\ DeserializeRunAgentInput(worker[1].request.body[1]).ok

\* the kinds of a run, in the order the test page announces them
RunKinds ==
    <<"RunStarted", "TextMessageStart", "TextMessageContent", "TextMessageEnd",
      "RunFinished">>

\* the event a chunk carries, read back from its bytes
ChunkEvent(chunk) == next_event_chunk(chunk).value[1]

\* C25: the agent stream of the example worker.  For every RunAgentInput the
\* start closure makes six controller calls: five enqueues, each of one chunk
\* that is one frame (a data line and an empty line) of an event, of the kinds
\* RUN_STARTED, TEXT_MESSAGE_START, TEXT_MESSAGE_CONTENT, TEXT_MESSAGE_END,
\* RUN_FINISHED in this order, and then close; the three text-message events carry the same
\* message_id, the first and the last event carry the thread_id and run_id of
\* the input, and the stream ends up closed with the five chunks queued.
C25_FiveFramesThenClose ==
    AgentRun =>
        /\ worker[1].promise.settled = "resolved"
        /\ worker[1].promise.response.body.kind = "stream"
        /\ LET ops    == worker[1].promise.response.body.ops
               stream == worker[1].promise.response.body.stream
               input  == DeserializeRunAgentInput(worker[1].request.body[1]).value
           IN /\ Len(ops) = 6
              /\ ops[6] = Close
              /\ \A i \in 1..5 :
                    /\ ops[i].op = "enqueue"
                    /\ next_event_chunk(ops[i].chunk).ok
                    /\ IsSome(next_event_chunk(ops[i].chunk).value)
                    /\ ChunkEvent(ops[i].chunk).event_type = RunKinds[i]
                    /\ Len(Lines(TextDecode(ops[i].chunk))) = 2
                    /\ Lines(TextDecode(ops[i].chunk))[2] = <<>>
              /\ \A i \in {1, 5} :
                    /\ ChunkEvent(ops[i].chunk).data.thread_id = input.thread_id
                    /\ ChunkEvent(ops[i].chunk).data.run_id = input.run_id
              /\ \A i \in {3, 4} :
                    ChunkEvent(ops[i].chunk).data.message_id
                        = ChunkEvent(ops[2].chunk).data.message_id
              /\ stream.closed
              /\ stream.queue = [i \in 1..5 |-> ops[i].chunk]

\* a run for thread t2 and run r has been served, with the message id u2
C25_RunServed ==
    /\ AgentRun
    /\ worker[1].request.body = Some(InputDoc("t2", "r"))
    /\ worker[1].promise.response.status = 200
    /\ worker[1].promise.response.body.stream.closed
    /\ Len(worker[1].promise.response.body.stream.queue) = 5
    /\ ChunkEvent(worker[1].promise.response.body.ops[4].chunk).data.message_id
          = Chars("u2")

\* the chunks the worker's stream was given, and how many of them the
\* client has read
SentChunks == worker[1].promise.response.body.stream.queue

ChunksRead == Len(SentChunks) - Len(worker[1].body[1].queue)

\* C27: one frame per chunk.  Reading the worker's stream, every next_event
\* call that finds a chunk takes exactly that chunk and returns the event of
\* that chunk: after k chunks the consumer has been given k events and no
\* error, the i-th event is the one decoded from the i-th chunk alone, and
\* their kinds are the kinds of a run in order; Ok(None) is returned once, for
\* the call that finds the stream done behind the last chunk.
C27_OneEventPerChunk ==
    AgentRun =>
        /\ errors = 0
        /\ Len(delivered) = ChunksRead
        /\ \A i \in 1..ChunksRead :
              /\ OkSome(delivered[i]) = next_event_chunk(SentChunks[i])
              /\ delivered[i].event_type = RunKinds[i]
        /\ eof => ChunksRead = 5 /\ last = <<OkNone>>
        /\ (~eof /\ ChunksRead > 0) => last = <<OkSome(delivered[ChunksRead])>>
        /\ (~eof /\ ChunksRead = 0) => last = <<>>

\* the five chunks have been read by five calls and the sixth call has
\* reported the end
C27_RunReadToEnd ==
    /\ AgentRun
    /\ eof
    /\ Len(delivered) = 5
    /\ delivered[5].event_type = "RunFinished"
    /\ last = <<OkNone>>

\* C30: routing of the example worker.  The promise of fetch is always
\* resolved with a response: GET / and GET /test.html give 200 with the test
\* page, POST /awp gives 200 with Content-Type text/event-stream and the
\* event stream as body, OPTIONS /awp gives 204 with the CORS headers and no
\* body, every other path and method gives 404, and a request whose handling
\* raises an error (POST /awp with a body that is no RunAgentInput) gives 500.
C30_RoutingTotal ==
    worker # <<>> =>
        /\ worker[1].promise.settled = "resolved"
        /\ LET q == worker[1].request
               r == worker[1].promise.response
           IN CASE q.pathname \in {"/", "/test.html"} /\ q.method = "GET" ->
                      r.status = 200 /\ r.body = TextBody("TEST_HTML")
                [] q.pathname = "/awp" /\ q.method = "POST" ->
                      IF AgentRun
                      THEN /\ r.status = 200
                           /\ <<"Content-Type", "text/event-stream">> \in r.headers
                           /\ r.body.kind = "stream"
                      ELSE r.status = 500 /\ r.body.kind = "text"
                [] q.pathname = "/awp" /\ q.method = "OPTIONS" ->
                      r.status = 204 /\ CorsHeaders \subseteq r.headers /\ r.body = NoBody
                [] OTHER ->
                      r.status = 404 /\ r.body = TextBody("Not found")

\* a POST /awp whose body is not JSON has been answered with status 500
C30_ErrorAnswered ==
    /\ worker # <<>>
    /\ worker[1].request.pathname = "/awp" /\ worker[1].request.method = "POST"
    /\ worker[1].request.body = None
    /\ worker[1].promise.settled = "resolved"
    /\ worker[1].promise.response.status = 500

(***************************************************************************)
(* Helper constructors                                                     *)
(***************************************************************************)
\* the kind each helper is named after
HelperKind ==
    [run_started |-> "RunStarted", run_finished |-> "RunFinished",
     text_message_start |-> "TextMessageStart",
     text_message_content |-> "TextMessageContent",
     text_message_end |-> "TextMessageEnd", error |-> "Error"]

\* C26: helper constructors.  The event a helper builds has the kind the
\* helper is named after and the payload variant of that kind, its payload
\* fields are the arguments of the call, one for one (the Error payload has
\* its details absent besides), its timestamp is set and its raw_event is
\* absent.
C26_HelperEvents ==
    Call.op = "helper" =>
        LET e == Call.event
            k == HelperKind[Call.helper]
        IN /\ e.event_type = k
           /\ e.data.variant = k
           /\ DOMAIN e.data
                 = DOMAIN Call.args \cup {"variant"}
                   \cup (IF Call.helper = "error" THEN {"details"} ELSE {})
           /\ \A f \in DOMAIN Call.args : e.data[f] = Call.args[f]
           /\ Call.helper = "error" => e.data.details = None
           /\ IsSome(e.timestamp)
           /\ e.raw_event = None

\* error(text, Some(code)) has been called with a text that has a line
\* break and a multi-byte character
C26_ErrorWithCode ==
    /\ Call.op = "helper"
    /\ Call.helper = "error"
    /\ Call.args = [error |-> <<"a", LF, "U+E9">>, code |-> Some(Chars("E1"))]
    /\ Call.event.timestamp = Some(7)

(***************************************************************************)
(* The client: client/web_agent.rs                                         *)
(***************************************************************************)
\* WebAgent::new
new(url) ==
    [url |-> url, agent_id |-> None, thread_id |-> None, messages |-> <<>>,
     state |-> <<>>]

set_agent_id(self, agent_id) == [self EXCEPT !.agent_id = Some(agent_id)]

\* mutation of set_thread_id: the id is stored as the agent id
set_thread_id_as_agent_id(self, thread_id) == [self EXCEPT !.agent_id = Some(thread_id)]

set_thread_id(self, thread_id) == [self EXCEPT !.thread_id = Some(thread_id)]

set_messages(self, messages) == [self EXCEPT !.messages = messages]

set_state(self, state) == [self EXCEPT !.state = state]

\* the synchronous Agent::run_agent
run_agent(self, input) == [ok |-> FALSE, error |-> "AgentError"]

\* mutation of assemble: what the agent has stored replaces what the input
\* brings
assemble_overwriting(input, messages, state) ==
    [input EXCEPT
        !.messages = IF messages # <<>> THEN Some(messages) ELSE @,
        !.state    = IF state # <<>> THEN Some(state) ELSE @]

\* run_agent_internal, lines 69-77: the stored messages and state are added
\* if the input provides none
assemble(input, messages, state) ==
    [input EXCEPT
        !.messages = IF ~IsSome(@) /\ messages # <<>> THEN Some(messages) ELSE @,
        !.state    = IF ~IsSome(@) /\ state # <<>> THEN Some(state) ELSE @]

\* serde_json::to_string(&input); a State is the member list of its map, and
\* tools, context and forwarded_props are None throughout
SerializeRunAgentInput(input) ==
    JObj(Field("thread_id", JStr(input.thread_id))
         \o Field("run_id", JStr(input.run_id))
         \o (IF IsSome(input.messages)
             THEN Field("messages", SerializeMessages(input.messages[1])) ELSE <<>>)
         \o (IF IsSome(input.state)
             THEN Field("state", JObj(input.state[1])) ELSE <<>>))

\* run_agent_internal: the request it sends and, by what the fetch comes
\* back with, its result
run_agent_internal(url, input, messages, state, outcome) ==
    [request |-> Some([url |-> url, method |-> "POST",
                       headers |-> {<<"Content-Type", "application/json">>,
                                    <<"Accept", "text/event-stream">>},
                       body |-> WriteJson(SerializeRunAgentInput(
                                              assemble(input, messages, state)))]),
     result |-> CASE outcome = "ok"         -> Resolved("EventStream")
                  [] outcome = "http_error" -> Rejected("ConnectionError")
                  [] outcome = "no_body"    -> Rejected("StreamError")
                  [] outcome = "rejected"   -> Rejected("WasmBindgenError")]

\* WebAgent::run_agent_js; input_js is None when it is no RunAgentInput
run_agent_js(self, input_js, outcome) ==
    IF ~IsSome(input_js)
    THEN [request |-> None, result |-> Rejected("Invalid RunAgentInput")]
    ELSE run_agent_internal(self.url, input_js[1], self.messages, self.state, outcome)

\* arguments
AgentIds == {Chars("a"), Chars("b")}

MessageLists == {<<>>, <<MessageA>>, <<MessageA, MessageB>>}

StateA == Field("k", JStr(Chars("v")))

StateB == Field("k", JStr(Chars("w")))

States == {<<>>, StateA, StateB}

RunAgentInputs ==
    {[thread_id |-> Chars("t"), run_id |-> Chars("r"), messages |-> m, state |-> st] :
        m \in {None, Some(<<>>), Some(<<MessageB>>)},
        st \in {None, Some(<<>>), Some(StateB)}}

FetchOutcomes == {"ok", "http_error", "no_body", "rejected"}

InitAgent ==
    /\ rt = <<>>
    /\ StreamIdle
    /\ producers = <<>> /\ calls = <<>> /\ worker = <<>>
    /\ agent = <<new(Chars("http://h/awp"))>>

\* a call on the agent: rt keeps the call and its result, agent what the
\* call left of the agent
AgentCall(call, self) ==
    /\ rt' = <<call>>
    /\ agent' = <<self>>
    /\ UNCHANGED <<streamVars, producers, calls, worker>>

SetAgentId ==
    \E id \in AgentIds :
        AgentCall([op |-> "set_agent_id", arg |-> id], set_agent_id(agent[1], id))

SetThreadId ==
    \E id \in AgentIds :
        AgentCall([op |-> "set_thread_id", arg |-> id], set_thread_id(agent[1], id))

SetMessages ==
    \E ms \in MessageLists :
        AgentCall([op |-> "set_messages", arg |-> ms], set_messages(agent[1], ms))

SetState ==
    \E st \in States :
        AgentCall([op |-> "set_state", arg |-> st], set_state(agent[1], st))

GetAgentId == AgentCall([op |-> "agent_id", result |-> agent[1].agent_id], agent[1])

GetThreadId == AgentCall([op |-> "thread_id", result |-> agent[1].thread_id], agent[1])

GetMessages == AgentCall([op |-> "messages", result |-> agent[1].messages], agent[1])

GetState == AgentCall([op |-> "state", result |-> agent[1].state], agent[1])

RunAgent ==
    \E input \in RunAgentInputs :
        AgentCall([op |-> "run_agent", input |-> input,
                   result |-> run_agent(agent[1], input)], agent[1])

RunAgentJs ==
    \E input_js \in {None} \cup {Some(i) : i \in RunAgentInputs},
       outcome \in FetchOutcomes :
        AgentCall([op |-> "run_agent_js", input_js |-> input_js]
                      @@ run_agent_js(agent[1], input_js, outcome), agent[1])

NextAgent ==
    SetAgentId \/ SetThreadId \/ SetMessages \/ SetState
    \/ GetAgentId \/ GetThreadId \/ GetMessages \/ GetState
    \/ RunAgent \/ RunAgentJs

SpecAgent == InitAgent /\ [][NextAgent]_vars

\* every body a request of the model can have, read back as a document
\* (evaluated once)
RequestBodies ==
    {WriteJson(SerializeRunAgentInput(
         [thread_id |-> Chars("t"), run_id |-> Chars("r"), messages |-> m, state |-> st])) :
        m \in {None} \cup {Some(x) : x \in MessageLists \cup {<<MessageB>>}},
        st \in {None} \cup {Some(y) : y \in States}}

BodyDocument == [body \in RequestBodies |-> ParseDocument(body)]

\* the member of the request body named key, as an Option
Sent(call, key) == Find(BodyDocument[call.request[1].body].v.members, Chars(key))

\* one step of the agent seen as a run_agent_js call
C28_RunStep ==
    (rt' # <<>> /\ rt'[1].op = "run_agent_js") =>
        /\ agent' = agent
        /\ ~IsSome(rt'[1].input_js) => rt'[1].request = None
        /\ IsSome(rt'[1].input_js) =>
              LET input == rt'[1].input_js[1]
                  self  == agent[1]
              IN /\ IsSome(rt'[1].request)
                 /\ rt'[1].request[1].url = self.url
                 /\ rt'[1].request[1].body \in RequestBodies
                 /\ BodyDocument[rt'[1].request[1].body].ok
                 /\ Sent(rt'[1], "messages")
                       = IF IsSome(input.messages)
                         THEN Some(SerializeMessages(input.messages[1]))
                         ELSE IF self.messages # <<>>
                              THEN Some(SerializeMessages(self.messages))
                              ELSE None
                 /\ Sent(rt'[1], "state")
                       = IF IsSome(input.state) THEN Some(JObj(input.state[1]))
                         ELSE IF self.state # <<>> THEN Some(JObj(self.state))
                              ELSE None

\* C28: request assembly of WebAgent.  The body of the request run_agent_js
\* sends has the input's messages when the input has any (an empty list
\* included), the agent's stored messages when the input has none and the
\* stored list is not empty, and no messages member otherwise, and the same
\* for state; nothing is merged, and the call leaves the agent's url,
\* messages, state and ids as they were.
C28_RequestAssembly == [][C28_RunStep]_vars

\* a run whose input brought a state but no messages, made on an agent that
\* has two stored messages and another stored state
C28_StoredMessagesInputState ==
    /\ rt # <<>> /\ rt[1].op = "run_agent_js"
    /\ rt[1].input_js
          = Some([thread_id |-> Chars("t"), run_id |-> Chars("r"), messages |-> None,
                  state |-> Some(StateB)])
    /\ agent[1].messages = <<MessageA, MessageB>>
    /\ agent[1].state = StateA
    /\ Sent(rt[1], "messages") = Some(SerializeMessages(<<MessageA, MessageB>>))
    /\ Sent(rt[1], "state") = Some(JObj(StateB))
    /\ rt[1].result = Resolved("EventStream")

\* an agent nothing has been set on
C29_Defaults ==
    /\ agent[1].messages = <<>> /\ agent[1].state = <<>>
    /\ agent[1].agent_id = None /\ agent[1].thread_id = None

\* one step of the agent seen as a call of the Agent interface
C29_CallStep ==
    rt' # <<>> =>
        LET c      == rt'[1]
            self   == agent[1]
            after  == agent'[1]
        IN CASE c.op = "set_agent_id" ->
                    after = [self EXCEPT !.agent_id = Some(c.arg)]
             [] c.op = "set_thread_id" ->
                    after = [self EXCEPT !.thread_id = Some(c.arg)]
             [] c.op = "set_messages" ->
                    after = [self EXCEPT !.messages = c.arg]
             [] c.op = "set_state" ->
                    after = [self EXCEPT !.state = c.arg]
             [] c.op = "agent_id" ->
                    after = self /\ c.result = self.agent_id
             [] c.op = "thread_id" ->
                    after = self /\ c.result = self.thread_id
             [] c.op = "messages" ->
                    after = self /\ c.result = self.messages
             [] c.op = "state" ->
                    after = self /\ c.result = self.state
             [] c.op = "run_agent" ->
                    after = self /\ ~c.result.ok /\ c.result.error = "AgentError"
             [] OTHER -> TRUE

\* C29: WebAgent as an Agent.  A new agent has no messages, an empty state
\* and neither id; every setter stores its argument in its own field and
\* leaves the other fields as they were, every getter returns the field as
\* it stands (so the value most recently set, or the default) and changes
\* nothing, and the synchronous run_agent returns an AgentError and changes
\* nothing.
C29_AgentContract == C29_Defaults /\ [][C29_CallStep]_vars

\* all four fields have been set, and run_agent has then returned its
\* error
C29_RunAfterSetters ==
    /\ rt # <<>> /\ rt[1].op = "run_agent"
    /\ ~rt[1].result.ok
    /\ agent[1].agent_id = Some(Chars("b")) /\ agent[1].thread_id = Some(Chars("a"))
    /\ agent[1].messages = <<MessageA, MessageB>>
    /\ agent[1].state = StateB
====
